---- MODULE Spec2Model ----
(***************************************************************************)
(* The dialog/context engine of the Telegram assistant:                    *)
(*   src/src/nlp/context_manager.py          ContextManager                *)
(*   src/src/nlp/intent_classifier.py        IntentClassifier              *)
(*   src/src/nlp/entity_extractor.py         EntityExtractor               *)
(*   src/src/nlp/Multi_part_Question_Handler.py  MultiPartQuestionHandler  *)
(*   src/src/nlp/claude_integration.py       ClaudeAI                      *)
(*   src/knowledge-base/app.py               search                        *)
(* A text is a sequence of one-character strings, so that substring and    *)
(* regular-expression matching are computed the way the code computes them.*)
(***************************************************************************)
EXTENDS Integers, Sequences, FiniteSets, TLC

(***************************************************************************)
(* Text primitives: str.lower, the `in` operator on strings, re.findall    *)
(* for a literal pattern (non-overlapping matches, left to right).         *)
(***************************************************************************)
UpperChars == <<"A","B","C","D","E","F","G","H","I","J","K","L","M","N","O","P","Q","R","S","T","U","V","W","X","Y","Z">>

LowerChars == <<"a","b","c","d","e","f","g","h","i","j","k","l","m","n","o","p","q","r","s","t","u","v","w","x","y","z">>

DigitChars == {"0","1","2","3","4","5","6","7","8","9"}

SpaceChars == {" ", "\t", "\n", "\r"}

lower_char(c) ==
  IF \E i \in 1..Len(UpperChars) : UpperChars[i] = c
  THEN LowerChars[CHOOSE i \in 1..Len(UpperChars) : UpperChars[i] = c]
  ELSE c

lower(text) == [i \in 1..Len(text) |-> lower_char(text[i])]

\* text[i .. i+Len(pat)-1] = pat
MatchAt(pat, text, i) ==
  /\ i >= 1
  /\ i + Len(pat) - 1 <= Len(text)
  /\ \A k \in 1..Len(pat) : text[i + k - 1] = pat[k]

\* pat in text
Contains(pat, text) == \E i \in 1..(Len(text) + 1) : MatchAt(pat, text, i)

\* any(p in text for p in pats)
ContainsAny(pats, text) == \E j \in 1..Len(pats) : Contains(pats[j], text)

RECURSIVE CountFrom(_, _, _)
\* len(re.findall(pat, text)) for a literal pattern, scanning from position i
CountFrom(pat, text, i) ==
  IF i + Len(pat) - 1 > Len(text) THEN 0
  ELSE IF MatchAt(pat, text, i) THEN 1 + CountFrom(pat, text, i + Len(pat))
  ELSE CountFrom(pat, text, i + 1)

\* text.count(c) for a single character
CountChar(c, text) == Cardinality({i \in 1..Len(text) : text[i] = c})

\* len(text.split()): the number of maximal runs of non-whitespace
WordCount(text) ==
  Cardinality({i \in 1..Len(text) :
                 /\ text[i] \notin SpaceChars
                 /\ (i = 1 \/ text[i - 1] \in SpaceChars)})

(***************************************************************************)
(* Regular expressions of the code.  A pattern is a sequence of atoms: a   *)
(* literal character or the class "\\d".  All of the code's re.findall     *)
(* calls pass re.IGNORECASE.                                               *)
(***************************************************************************)
AtomMatches(a, c) ==
  IF a = "\\d" THEN c \in DigitChars ELSE lower_char(a) = lower_char(c)

ReMatchAt(pat, text, i) ==
  /\ i >= 1
  /\ i + Len(pat) - 1 <= Len(text)
  /\ \A k \in 1..Len(pat) : AtomMatches(pat[k], text[i + k - 1])

RECURSIVE ReCountFrom(_, _, _)
\* len(re.findall(pat, text, re.IGNORECASE)), scanning from position i
ReCountFrom(pat, text, i) ==
  IF i + Len(pat) - 1 > Len(text) THEN 0
  ELSE IF ReMatchAt(pat, text, i) THEN 1 + ReCountFrom(pat, text, i + Len(pat))
  ELSE ReCountFrom(pat, text, i + 1)

RECURSIVE SkipSpaces(_, _)
\* the position after the longest run of whitespace starting at i  (\s*)
SkipSpaces(text, i) ==
  IF i <= Len(text) /\ text[i] \in SpaceChars THEN SkipSpaces(text, i + 1) ELSE i

\* the end of a match of IS\s*(\d{3}) starting at i, or 0 when there is none
CourseCodeEnd(text, i) ==
  IF ~ReMatchAt(<<"I","S">>, text, i) THEN 0
  ELSE LET d == SkipSpaces(text, i + 2)
       IN IF ReMatchAt(<<"\\d","\\d","\\d">>, text, d) THEN d + 3 ELSE 0

RECURSIVE FindCourseCodes(_, _)
\* re.findall(r'IS\s*(\d{3})', text, re.IGNORECASE): the captured digits
FindCourseCodes(text, i) ==
  IF i > Len(text) THEN <<>>
  ELSE LET e == CourseCodeEnd(text, i)
       IN IF e = 0 THEN FindCourseCodes(text, i + 1)
          ELSE <<SubSeq(text, e - 3, e - 1)>> \o FindCourseCodes(text, e)

complex_phrases ==
  << <<"c","o","m","p","a","r","e">>,
     <<"d","i","f","f","e","r","e","n","c","e">>,
     <<"s","i","m","i","l","a","r">>,
     <<"p","r","o","s">>,
     <<"c","o","n","s">>,
     <<"a","d","v","a","n","t","a","g","e">>,
     <<"d","i","s","a","d","v","a","n","t","a","g","e">>,
     <<"h","o","w"," ","w","o","u","l","d">>,
     <<"e","x","p","l","a","i","n">>,
     <<"w","h","y">>,
     <<"m","u","l","t","i","p","l","e">>,
     <<"s","e","v","e","r","a","l">>,
     <<"v","a","r","i","o","u","s">>,
     <<"d","i","f","f","e","r","e","n","t">>,
     <<"w","a","y","s">>,
     <<"a","l","s","o">>,
     <<"a","s"," ","w","e","l","l">>,
     <<"f","u","r","t","h","e","r","m","o","r","e">>,
     <<"a","d","d","i","t","i","o","n","a","l">>,
     <<"m","o","r","e","o","v","e","r">>,
     <<"c","a","r","e","e","r">>,
     <<"p","r","o","s","p","e","c","t","s">>,
     <<"f","u","t","u","r","e">>,
     <<"j","o","b">>,
     <<"w","o","r","k">>,
     <<"i","n","d","u","s","t","r","y">>,
     <<"p","r","i","o","r","i","t","i","z","e">>,
     <<"f","o","c","u","s">>,
     <<"c","o","n","c","e","n","t","r","a","t","e">>,
     <<"r","e","c","o","m","m","e","n","d">>,
     <<"s","u","g","g","e","s","t">>,
     <<"b","e","t","w","e","e","n">>,
     <<"a","m","o","n","g">>,
     <<"v","e","r","s","u","s">>,
     <<"v","s">>,
     <<"c","o","n","t","r","a","s","t">>,
     <<"r","e","l","a","t","i","o","n","s","h","i","p">>,
     <<"i","m","p","a","c","t">>,
     <<"e","f","f","e","c","t">>,
     <<"i","n","f","l","u","e","n","c","e">>,
     <<"r","e","s","u","l","t">>,
     <<"o","u","t","c","o","m","e">> >>

programming_keywords ==
  << <<"c","o","d","e">>,
     <<"p","r","o","g","r","a","m">>,
     <<"f","u","n","c","t","i","o","n">>,
     <<"a","l","g","o","r","i","t","h","m">>,
     <<"p","y","t","h","o","n">>,
     <<"j","a","v","a">>,
     <<"j","a","v","a","s","c","r","i","p","t">> >>

basic_questions ==
  << <<"h","e","l","l","o">>,
     <<"h","i">>,
     <<"h","o","w"," ","a","r","e"," ","y","o","u">>,
     <<"t","h","a","n","k">>,
     <<"g","o","o","d","b","y","e">>,
     <<"b","y","e">>,
     <<"w","h","o"," ","a","r","e"," ","y","o","u">>,
     <<"w","h","a","t"," ","c","a","n"," ","y","o","u"," ","d","o">>,
     <<"h","e","l","p">> >>

patterns_greeting ==
  << <<"h","e","l","l","o">>,
     <<"h","i">>,
     <<"h","e","y">>,
     <<"g","r","e","e","t","i","n","g","s">>,
     <<"g","o","o","d"," ","m","o","r","n","i","n","g">>,
     <<"g","o","o","d"," ","a","f","t","e","r","n","o","o","n">>,
     <<"g","o","o","d"," ","e","v","e","n","i","n","g">> >>

patterns_farewell ==
  << <<"b","y","e">>,
     <<"g","o","o","d","b","y","e">>,
     <<"s","e","e"," ","y","o","u">>,
     <<"t","a","l","k"," ","t","o"," ","y","o","u"," ","l","a","t","e","r">>,
     <<"h","a","v","e"," ","a"," ","g","o","o","d"," ","d","a","y">> >>

patterns_help ==
  << <<"h","e","l","p">>,
     <<"a","s","s","i","s","t">>,
     <<"s","u","p","p","o","r","t">>,
     <<"g","u","i","d","a","n","c","e">>,
     <<"h","o","w"," ","d","o"," ","I">> >>

patterns_course_info ==
  << <<"c","o","u","r","s","e">>,
     <<"c","l","a","s","s">>,
     <<"m","o","d","u","l","e">>,
     <<"s","u","b","j","e","c","t">>,
     <<"I","S","\\d","\\d","\\d">>,
     <<"i","n","f","o","r","m","a","t","i","o","n"," ","a","b","o","u","t">>,
     <<"t","e","l","l"," ","m","e"," ","a","b","o","u","t">>,
     <<"d","e","t","a","i","l","s"," ","o","n">> >>

patterns_assignment ==
  << <<"a","s","s","i","g","n","m","e","n","t">>,
     <<"h","o","m","e","w","o","r","k">>,
     <<"p","r","o","j","e","c","t">>,
     <<"t","a","s","k">>,
     <<"s","u","b","m","i","s","s","i","o","n">>,
     <<"d","e","a","d","l","i","n","e">>,
     <<"d","u","e"," ","d","a","t","e">>,
     <<"w","h","e","n"," ","i","s">>,
     <<"s","u","b","m","i","t">> >>

patterns_grades ==
  << <<"g","r","a","d","e">>,
     <<"s","c","o","r","e">>,
     <<"m","a","r","k">>,
     <<"p","e","r","f","o","r","m","a","n","c","e">>,
     <<"r","e","s","u","l","t">>,
     <<"h","o","w"," ","d","i","d"," ","I"," ","d","o">>,
     <<"p","a","s","s","e","d">>,
     <<"f","a","i","l","e","d">> >>

patterns_schedule ==
  << <<"s","c","h","e","d","u","l","e">>,
     <<"t","i","m","e","t","a","b","l","e">>,
     <<"c","a","l","e","n","d","a","r">>,
     <<"w","h","e","n">>,
     <<"w","h","a","t"," ","t","i","m","e">>,
     <<"d","a","t","e">>,
     <<"c","l","a","s","s"," ","t","i","m","e">>,
     <<"l","e","c","t","u","r","e">>,
     <<"s","e","s","s","i","o","n">> >>

patterns_learning_material ==
  << <<"m","a","t","e","r","i","a","l">>,
     <<"d","o","c","u","m","e","n","t">>,
     <<"r","e","a","d","i","n","g">>,
     <<"t","e","x","t","b","o","o","k">>,
     <<"n","o","t","e">>,
     <<"s","l","i","d","e">>,
     <<"r","e","s","o","u","r","c","e">>,
     <<"l","e","a","r","n">>,
     <<"s","t","u","d","y">> >>

(***************************************************************************)
(* IntentClassifier                                                        *)
(***************************************************************************)
IntentOrder ==
  <<"greeting", "farewell", "help", "course_info", "assignment", "grades",
    "schedule", "learning_material">>

intent_patterns ==
  [greeting |-> patterns_greeting, farewell |-> patterns_farewell,
   help |-> patterns_help, course_info |-> patterns_course_info,
   assignment |-> patterns_assignment, grades |-> patterns_grades,
   schedule |-> patterns_schedule, learning_material |-> patterns_learning_material]

RECURSIVE SumCounts(_, _, _)
\* score += len(re.findall(pattern, text, re.IGNORECASE)) over patterns[j..]
SumCounts(patterns, text, j) ==
  IF j > Len(patterns) THEN 0
  ELSE ReCountFrom(patterns[j], text, 1) + SumCounts(patterns, text, j + 1)

\* the number of pattern matches of one intent in the lowercased text
IntentHits(intent, text) == SumCounts(intent_patterns[intent], lower(text), 1)

\* a score is the fraction num/den; a/b < c/d for positive denominators
ScoreLess(a, b) == a.num * b.den < b.num * a.den

RECURSIVE FirstMax(_, _, _)
\* max(scores.items(), key=lambda x: x[1]): the first maximum in dict order
FirstMax(text, k, best) ==
  IF k > Len(IntentOrder) THEN best
  ELSE LET intent == IntentOrder[k]
           hits == IntentHits(intent, text)
           cand == [intent |-> intent, num |-> hits, den |-> Len(intent_patterns[intent])]
       IN IF hits > 0 /\ (best.intent = "unknown" \/ ScoreLess(best, cand))
          THEN FirstMax(text, k + 1, cand)
          ELSE FirstMax(text, k + 1, best)

\* classify keeping the score of every intent, also of those without a hit
classify_scores_every_intent(text) ==
  LET top == FirstMax(text, 1, [intent |-> "unknown", num |-> 0, den |-> 1])
  IN IF top.intent = "unknown"
     THEN [intent |-> IntentOrder[1], num |-> 0, den |-> Len(intent_patterns[IntentOrder[1]])]
     ELSE top

classify(text) == FirstMax(text, 1, [intent |-> "unknown", num |-> 0, den |-> 1])

\* get_all_scores keeping, as classify does, only the intents with a hit
get_all_scores_hits_only(text) ==
  [intent \in {n \in DOMAIN intent_patterns : IntentHits(n, text) > 0} |->
     [num |-> IntentHits(intent, text), den |-> Len(intent_patterns[intent])]]

\* the dict of every intent's score; its iteration order is IntentOrder
get_all_scores(text) ==
  [intent \in DOMAIN intent_patterns |->
     IF IntentHits(intent, text) > 0
     THEN [num |-> IntentHits(intent, text), den |-> Len(intent_patterns[intent])]
     ELSE [num |-> 0, den |-> 1]]

(***************************************************************************)
(* EntityExtractor.  Of entity_patterns, course_code and number are        *)
(* modelled; date, time, email and percentage have no match in any text    *)
(* the specifications use (no '/', '-', ':', '@', '%').                    *)
(***************************************************************************)
IS == <<"I","S">>

course_names ==
  (IS \o <<"6","2","1">>) :> "Agile and DevSecOps" @@
  (IS \o <<"6","2","2">>) :> "Cloud Computing and Container Architecture" @@
  (IS \o <<"6","2","3">>) :> "AI and Machine Learning" @@
  (IS \o <<"6","2","4">>) :> "Big Data and Analytics" @@
  (IS \o <<"6","2","5">>) :> "Software Quality Management"

RECURSIVE NamesOf(_, _)
\* the names of the codes that are in course_names, in order
NamesOf(codes, j) ==
  IF j > Len(codes) THEN <<>>
  ELSE (IF (IS \o codes[j]) \in DOMAIN course_names
        THEN <<course_names[IS \o codes[j]]>> ELSE <<>>) \o NamesOf(codes, j + 1)

\* a dict: a function whose domain is the set of keys present
EmptyDict == [k \in {} |-> <<>>]

\* \w of the regular expressions, over the characters of the texts
WordChars == DigitChars \cup {"_"} \cup {UpperChars[i] : i \in 1..Len(UpperChars)}
               \cup {LowerChars[i] : i \in 1..Len(LowerChars)}

RECURSIVE DigitsEnd(_, _)
\* the position after the longest run of digits starting at i  (\d+)
DigitsEnd(text, i) ==
  IF i <= Len(text) /\ text[i] \in DigitChars THEN DigitsEnd(text, i + 1) ELSE i

RECURSIVE FindNumbers(_, _)
\* re.findall(r'\b(\d+)\b', text, re.IGNORECASE): the runs of digits that have no
\* word character on either side
FindNumbers(text, i) ==
  IF i > Len(text) THEN <<>>
  ELSE IF text[i] \notin DigitChars THEN FindNumbers(text, i + 1)
  ELSE LET e == DigitsEnd(text, i)
       IN IF /\ (i = 1 \/ text[i - 1] \notin WordChars)
             /\ (e > Len(text) \/ text[e] \notin WordChars)
          THEN <<SubSeq(text, i, e - 1)>> \o FindNumbers(text, e)
          ELSE FindNumbers(text, e)

\* extract_entities listing a name, "Unknown Course" if need be, for every code
extract_entities_names_every_code(text) ==
  LET codes == FindCourseCodes(text, 1)
      numbers == FindNumbers(text, 1)
  IN (IF codes # <<>> THEN "course_code" :> codes ELSE EmptyDict) @@
     (IF numbers # <<>> THEN "number" :> numbers ELSE EmptyDict) @@
     (IF codes # <<>>
      THEN "course_name" :> [j \in 1..Len(codes) |->
                               IF (IS \o codes[j]) \in DOMAIN course_names
                               THEN course_names[IS \o codes[j]] ELSE "Unknown Course"]
      ELSE EmptyDict)

extract_entities(text) ==
  LET codes == FindCourseCodes(text, 1)
      numbers == FindNumbers(text, 1)
      names == NamesOf(codes, 1)
  IN (IF codes # <<>> THEN "course_code" :> codes ELSE EmptyDict) @@
     (IF numbers # <<>> THEN "number" :> numbers ELSE EmptyDict) @@
     (IF names # <<>> THEN "course_name" :> names ELSE EmptyDict)

(***************************************************************************)
(* MultiPartQuestionHandler.is_complex_question                            *)
(***************************************************************************)
\* is_complex_question with the earlier length threshold of 15 words
is_complex_question_threshold_15(message) ==
  \/ Contains(<<"A","I"," ","a","n","d"," ","M","a","c","h","i","n","e"," ","L","e","a","r","n","i","n","g">>, message)
  \/ Contains(<<"d","a","t","a"," ","s","c","i","e","n","c","e">>, lower(message))
  \/ Contains(<<"c","a","r","e","e","r">>, lower(message))
  \/ Contains(<<"c","o","n","t","e","n","t">>, lower(message))
  \/ Contains(<<"D","e","v","S","e","c","O","p","s">>, message)
  \/ Contains(<<"t","r","a","d","i","t","i","o","n","a","l">>, message)
  \/ WordCount(message) > 15
  \/ CountChar("?", message) > 1
  \/ ContainsAny(complex_phrases, lower(message))

is_complex_question(message) ==
  \/ Contains(<<"A","I"," ","a","n","d"," ","M","a","c","h","i","n","e"," ","L","e","a","r","n","i","n","g">>, message)
  \/ Contains(<<"d","a","t","a"," ","s","c","i","e","n","c","e">>, lower(message))
  \/ Contains(<<"c","a","r","e","e","r">>, lower(message))
  \/ Contains(<<"c","o","n","t","e","n","t">>, lower(message))
  \/ Contains(<<"D","e","v","S","e","c","O","p","s">>, message)
  \/ Contains(<<"t","r","a","d","i","t","i","o","n","a","l">>, message)
  \/ WordCount(message) > 10
  \/ CountChar("?", message) > 1
  \/ ContainsAny(complex_phrases, lower(message))

(***************************************************************************)
(* The gate's allowlists in ClaudeAI.handle_multi_part_question            *)
(***************************************************************************)
is_technical_question(message) == ContainsAny(programming_keywords, lower(message))

is_basic_question(message) ==
  \E j \in 1..Len(basic_questions) : Contains(lower(basic_questions[j]), lower(message))

msg_tell_IS621 == <<"T","e","l","l"," ","m","e"," ","a","b","o","u","t"," ","I","S","6","2","1">>  \* Tell me about IS621
msg_course == <<"c","o","u","r","s","e">>  \* course
msg_IS699 == <<"I","S","6","9","9">>  \* IS699
msg_task == <<"t","a","s","k"," ","f","o","r"," ","I","S","6","2","2"," ","s","u","b","m","i","s","s","i","o","n">>  \* task for IS622 submission
msg_project == <<"P","r","o","j","e","c","t">>  \* Project
msg_study == <<"s","t","u","d","y"," ","n","o","t","e","s">>  \* study notes
msg_compare == <<"c","o","m","p","a","r","e"," ","I","S","6","2","1"," ","a","n","d"," ","I","S","6","2","2">>  \* compare IS621 and IS622
msg_python == <<"p","y","t","h","o","n"," ","c","o","d","e">>  \* python code
msg_hello == <<"h","e","l","l","o">>  \* hello
msg_grade == <<"g","r","a","d","e">>  \* grade
msg_bye == <<"b","y","e">>  \* bye
msg_ok == <<"o","k">>  \* ok
msg_goodbyes == <<"g","o","o","d","b","y","e"," ","g","o","o","d","b","y","e"," ","g","o","o","d","b","y","e">>  \* goodbye goodbye goodbye
msg_exam_project == <<"E","X","A","M"," ","a","n","d"," ","P","r","o","j","e","c","t">>  \* EXAM and Project
msg_assignment_exam == <<"m","y"," ","A","s","s","i","g","n","m","e","n","t"," ","o","r"," ","e","x","a","m">>  \* my Assignment or exam
msg_exam == <<"e","x","a","m">>  \* exam
(***************************************************************************)
(* The messages users send.  Every function of the message text is         *)
(* computed once per message.                                              *)
(***************************************************************************)
Messages ==
  {msg_tell_IS621, msg_course, msg_IS699, msg_task, msg_project, msg_study,
   msg_compare, msg_python, msg_hello, msg_grade, msg_bye, msg_ok, msg_goodbyes,
   msg_exam_project, msg_assignment_exam, msg_exam}

MsgTable ==
  [m \in Messages |->
     [complex |-> is_complex_question(m),
      intent |-> classify(m),
      entities |-> extract_entities(m),
      technical |-> is_technical_question(m),
      basic |-> is_basic_question(m)]]

(***************************************************************************)
(* Python values.  None is the empty tuple and a present value x is <<x>>  *)
(* wherever the code stores or returns an optional value; a dict is a      *)
(* function whose domain is the set of keys present.                       *)
(***************************************************************************)
None == <<>>

Some(x) == <<x>>

Get(d, k, default) == IF k \in DOMAIN d THEN d[k] ELSE default

DictWithout(d, k) == [x \in DOMAIN d \ {k} |-> d[x]]

RECURSIVE Str(_)
\* the string made of the characters of a text
Str(text) == IF text = <<>> THEN "" ELSE text[1] \o Str(Tail(text))

(***************************************************************************)
(* ContextManager.  Each operation takes the store and the clock reading   *)
(* and returns the store it leaves.                                        *)
(***************************************************************************)
ExpirySeconds == 600

\* key.startswith('_'), over the keys the program stores
InternalKeys == {"_last_updated"}

\* set_context replacing the record by the mapping passed
set_context_replaces(ctxs, user_id, context_data, t) ==
  (user_id :> (("_last_updated" :> t) @@ context_data)) @@ ctxs

set_context(ctxs, user_id, context_data, t) ==
  LET record == IF user_id \in DOMAIN ctxs THEN ctxs[user_id] ELSE EmptyDict
  IN (user_id :> (("_last_updated" :> t) @@ context_data @@ record)) @@ ctxs

\* clear_context emptying the whole store
clear_context_all(ctxs, user_id) ==
  IF user_id \in DOMAIN ctxs THEN EmptyDict ELSE ctxs

clear_context(ctxs, user_id) ==
  IF user_id \in DOMAIN ctxs THEN DictWithout(ctxs, user_id) ELSE ctxs

\* get_context expiring the record when its age reaches the window
get_context_expires_at_window(ctxs, user_id, t) ==
  IF user_id \notin DOMAIN ctxs THEN [contexts |-> ctxs, value |-> None]
  ELSE IF t - Get(ctxs[user_id], "_last_updated", 0) >= ExpirySeconds
  THEN [contexts |-> clear_context(ctxs, user_id), value |-> None]
  ELSE [contexts |-> ctxs,
        value |-> Some([k \in DOMAIN ctxs[user_id] \ InternalKeys |-> ctxs[user_id][k]])]

get_context(ctxs, user_id, t) ==
  IF user_id \notin DOMAIN ctxs THEN [contexts |-> ctxs, value |-> None]
  ELSE IF t - Get(ctxs[user_id], "_last_updated", 0) > ExpirySeconds
  THEN [contexts |-> clear_context(ctxs, user_id), value |-> None]
  ELSE [contexts |-> ctxs,
        value |-> Some([k \in DOMAIN ctxs[user_id] \ InternalKeys |-> ctxs[user_id][k]])]

\* update_context creating the record of a user that has none
update_context_creates(ctxs, user_id, key, value, t) ==
  LET record == IF user_id \in DOMAIN ctxs THEN ctxs[user_id] ELSE EmptyDict
  IN (user_id :> ((key :> value) @@ ("_last_updated" :> t) @@ record)) @@ ctxs

update_context(ctxs, user_id, key, value, t) ==
  IF user_id \in DOMAIN ctxs
  THEN (user_id :> ((key :> value) @@ ("_last_updated" :> t) @@ ctxs[user_id])) @@ ctxs
  ELSE ctxs

(***************************************************************************)
(* The outcome of a handler: the store it leaves, the reply it returns     *)
(* (PyNone when the function falls off its end), the knowledge-search      *)
(* queries and the external-model requests it made.                        *)
(***************************************************************************)
PyNone == <<>>

Text(s) == <<s>>

Outcome(ctxs, reply, queries, calls) ==
  [contexts |-> ctxs, reply |-> reply, kb_queries |-> queries, model_calls |-> calls]

Reply(ctxs, s) == Outcome(ctxs, Text(s), <<>>, <<>>)

(***************************************************************************)
(* MultiPartQuestionHandler: the slot-filling flows                        *)
(***************************************************************************)
course_info ==
  (IS \o <<"6","2","1">>) :> "IS621: Agile and DevSecOps - This course covers agile methodologies and DevSecOps practices for modern software development." @@
  (IS \o <<"6","2","2">>) :> "IS622: Cloud Computing and Container Architecture - This course covers cloud computing platforms and container technologies." @@
  (IS \o <<"6","2","3">>) :> "IS623: AI and Machine Learning - This course covers artificial intelligence concepts and machine learning techniques." @@
  (IS \o <<"6","2","4">>) :> "IS624: Big Data and Analytics - This course covers big data processing and analytics methodologies." @@
  (IS \o <<"6","2","5">>) :> "IS625: Software Quality Management - This course covers software quality assurance and testing methodologies."

_get_course_info(course_code) ==
  IF course_code \in DOMAIN course_info THEN course_info[course_code]
  ELSE "I don't have information about " \o Str(course_code) \o ". Please check the SMU course catalog."

\* the two update_context calls that end or start a flow
SetFlow(ctxs, user_id, flow, step, t) ==
  update_context(update_context(ctxs, user_id, "active_flow", flow, t),
                 user_id, "active_step", step, t)

NoCodeReply == "I couldn't identify a course code. Please provide a valid course code like IS621."

CourseInfoPrompt == "Which course would you like information about? Please provide the course code (e.g., IS621)."

AssignmentPrompt == "Which course's assignments are you interested in? Please provide the course code (e.g., IS621)."

MaterialPrompt == "Which course's learning materials are you interested in? Please provide the course code (e.g., IS621)."

\* _handle_course_info_flow with the two update_context calls of step 1 left out
_handle_course_info_flow_keeps_flow(ctxs, user_id, message, context, t) ==
  LET active_step == Get(context, "active_step", None)
  IN IF active_step = None
     THEN LET entities == Get(context, "last_entities", EmptyDict)
              course_codes == Get(entities, "course_code", <<>>)
          IN IF course_codes # <<>>
             THEN Reply(SetFlow(ctxs, user_id, None, None, t),
                        _get_course_info(IS \o course_codes[1]))
             ELSE Reply(SetFlow(ctxs, user_id, Some("course_info"), Some(1), t),
                        CourseInfoPrompt)
     ELSE IF active_step = Some(1)
     THEN LET course_codes == Get(extract_entities(message), "course_code", <<>>)
          IN IF course_codes # <<>>
             THEN Reply(ctxs, _get_course_info(IS \o course_codes[1]))
             ELSE Reply(ctxs, NoCodeReply)
     ELSE Outcome(ctxs, PyNone, <<>>, <<>>)

_handle_course_info_flow(ctxs, user_id, message, context, t) ==
  LET active_step == Get(context, "active_step", None)
  IN IF active_step = None
     THEN LET entities == Get(context, "last_entities", EmptyDict)
              course_codes == Get(entities, "course_code", <<>>)
          IN IF course_codes # <<>>
             THEN Reply(SetFlow(ctxs, user_id, None, None, t),
                        _get_course_info(IS \o course_codes[1]))
             ELSE Reply(SetFlow(ctxs, user_id, Some("course_info"), Some(1), t),
                        CourseInfoPrompt)
     ELSE IF active_step = Some(1)
     THEN LET course_codes == Get(extract_entities(message), "course_code", <<>>)
          IN IF course_codes # <<>>
             THEN Reply(SetFlow(ctxs, user_id, None, None, t),
                        _get_course_info(IS \o course_codes[1]))
             ELSE Reply(ctxs, NoCodeReply)
     ELSE Outcome(ctxs, PyNone, <<>>, <<>>)

AskKindReply(course_code) ==
  "For " \o Str(course_code) \o ", do you want to know about assignments, projects, or exams?"

\* the four replies of step 2; course_code is a string here
AssignmentsReply(course_code) ==
  "For " \o course_code \o ", there are 2 assignments worth 20% of your final grade. The first assignment is due on March 15th, and the second is due on April 10th."

ProjectReply(course_code) ==
  "For " \o course_code \o ", there is a group project worth 35% of your final grade. The project proposal is due on March 1st, and the final submission is due on April 20th."

ExamReply(course_code) ==
  "For " \o course_code \o ", there is a final exam worth 45% of your final grade. The exam is scheduled for May 5th."

MenuReply(course_code) ==
  "For " \o course_code \o ", there are assignments (20%), a group project (35%), and a final exam (45%). Which would you like to know more about?"

\* _handle_assignment_flow without a branch for step 2
_handle_assignment_flow_without_step_two(ctxs, user_id, message, context, t) ==
  LET active_step == Get(context, "active_step", None)
  IN IF active_step = None
     THEN LET entities == Get(context, "last_entities", EmptyDict)
              course_codes == Get(entities, "course_code", <<>>)
          IN IF course_codes # <<>>
             THEN LET course_code == IS \o course_codes[1]
                  IN Reply(SetFlow(update_context(ctxs, user_id, "current_course", course_code, t),
                                   user_id, Some("assignment"), Some(2), t),
                           AskKindReply(course_code))
             ELSE Reply(SetFlow(ctxs, user_id, Some("assignment"), Some(1), t),
                        AssignmentPrompt)
     ELSE IF active_step = Some(1)
     THEN LET course_codes == Get(extract_entities(message), "course_code", <<>>)
          IN IF course_codes # <<>>
             THEN LET course_code == IS \o course_codes[1]
                  IN Reply(update_context(update_context(ctxs, user_id, "current_course", course_code, t),
                                          user_id, "active_step", Some(2), t),
                           AskKindReply(course_code))
             ELSE Reply(ctxs, NoCodeReply)
     ELSE Outcome(ctxs, PyNone, <<>>, <<>>)

\* _handle_assignment_flow looking for "exam" first at step 2
_handle_assignment_flow_exam_first(ctxs, user_id, message, context, t) ==
  LET active_step == Get(context, "active_step", None)
  IN IF active_step = None
     THEN LET entities == Get(context, "last_entities", EmptyDict)
              course_codes == Get(entities, "course_code", <<>>)
          IN IF course_codes # <<>>
             THEN LET course_code == IS \o course_codes[1]
                  IN Reply(SetFlow(update_context(ctxs, user_id, "current_course", course_code, t),
                                   user_id, Some("assignment"), Some(2), t),
                           AskKindReply(course_code))
             ELSE Reply(SetFlow(ctxs, user_id, Some("assignment"), Some(1), t),
                        AssignmentPrompt)
     ELSE IF active_step = Some(1)
     THEN LET course_codes == Get(extract_entities(message), "course_code", <<>>)
          IN IF course_codes # <<>>
             THEN LET course_code == IS \o course_codes[1]
                  IN Reply(update_context(update_context(ctxs, user_id, "current_course", course_code, t),
                                          user_id, "active_step", Some(2), t),
                           AskKindReply(course_code))
             ELSE Reply(ctxs, NoCodeReply)
     ELSE IF active_step = Some(2)
     THEN LET assignment_type == lower(message)
              course_code == IF "current_course" \in DOMAIN context
                             THEN Str(context["current_course"]) ELSE "unknown"
              cleared == SetFlow(ctxs, user_id, None, None, t)
          IN IF Contains(<<"e","x","a","m">>, assignment_type)
             THEN Reply(cleared, ExamReply(course_code))
             ELSE IF Contains(<<"a","s","s","i","g","n","m","e","n","t">>, assignment_type)
             THEN Reply(cleared, AssignmentsReply(course_code))
             ELSE IF Contains(<<"p","r","o","j","e","c","t">>, assignment_type)
             THEN Reply(cleared, ProjectReply(course_code))
             ELSE Reply(cleared, MenuReply(course_code))
     ELSE Outcome(ctxs, PyNone, <<>>, <<>>)

_handle_assignment_flow(ctxs, user_id, message, context, t) ==
  LET active_step == Get(context, "active_step", None)
  IN IF active_step = None
     THEN LET entities == Get(context, "last_entities", EmptyDict)
              course_codes == Get(entities, "course_code", <<>>)
          IN IF course_codes # <<>>
             THEN LET course_code == IS \o course_codes[1]
                  IN Reply(SetFlow(update_context(ctxs, user_id, "current_course", course_code, t),
                                   user_id, Some("assignment"), Some(2), t),
                           AskKindReply(course_code))
             ELSE Reply(SetFlow(ctxs, user_id, Some("assignment"), Some(1), t),
                        AssignmentPrompt)
     ELSE IF active_step = Some(1)
     THEN LET course_codes == Get(extract_entities(message), "course_code", <<>>)
          IN IF course_codes # <<>>
             THEN LET course_code == IS \o course_codes[1]
                  IN Reply(update_context(update_context(ctxs, user_id, "current_course", course_code, t),
                                          user_id, "active_step", Some(2), t),
                           AskKindReply(course_code))
             ELSE Reply(ctxs, NoCodeReply)
     ELSE IF active_step = Some(2)
     THEN LET assignment_type == lower(message)
              course_code == IF "current_course" \in DOMAIN context
                             THEN Str(context["current_course"]) ELSE "unknown"
              cleared == SetFlow(ctxs, user_id, None, None, t)
          IN IF Contains(<<"a","s","s","i","g","n","m","e","n","t">>, assignment_type)
             THEN Reply(cleared, AssignmentsReply(course_code))
             ELSE IF Contains(<<"p","r","o","j","e","c","t">>, assignment_type)
             THEN Reply(cleared, ProjectReply(course_code))
             ELSE IF Contains(<<"e","x","a","m">>, assignment_type)
             THEN Reply(cleared, ExamReply(course_code))
             ELSE Reply(cleared, MenuReply(course_code))
     ELSE Outcome(ctxs, PyNone, <<>>, <<>>)

GradesReply == "To check your grades, please log into the SMU student portal. I don't have access to your personal grade information."

_handle_grades_flow(ctxs, user_id, message, context, t) == Reply(ctxs, GradesReply)

MaterialReply(course_code) ==
  "For " \o Str(course_code) \o " (" \o Get(course_names, course_code, "Unknown Course")
    \o "), you can find lecture slides, reading materials, and tutorial questions on the SMU eLearning portal. Would you like me to recommend additional resources for this course?"

\* _handle_learning_material_flow clearing active_flow but not active_step at step 1
_handle_learning_material_flow_keeps_step(ctxs, user_id, message, context, t) ==
  LET active_step == Get(context, "active_step", None)
  IN IF active_step = None
     THEN LET entities == Get(context, "last_entities", EmptyDict)
              course_codes == Get(entities, "course_code", <<>>)
          IN IF course_codes # <<>>
             THEN Reply(SetFlow(ctxs, user_id, None, None, t), MaterialReply(IS \o course_codes[1]))
             ELSE Reply(SetFlow(ctxs, user_id, Some("learning_material"), Some(1), t),
                        MaterialPrompt)
     ELSE IF active_step = Some(1)
     THEN LET course_codes == Get(extract_entities(message), "course_code", <<>>)
          IN IF course_codes # <<>>
             THEN Reply(update_context(ctxs, user_id, "active_flow", None, t),
                        MaterialReply(IS \o course_codes[1]))
             ELSE Reply(ctxs, NoCodeReply)
     ELSE Outcome(ctxs, PyNone, <<>>, <<>>)

_handle_learning_material_flow(ctxs, user_id, message, context, t) ==
  LET active_step == Get(context, "active_step", None)
  IN IF active_step = None
     THEN LET entities == Get(context, "last_entities", EmptyDict)
              course_codes == Get(entities, "course_code", <<>>)
          IN IF course_codes # <<>>
             THEN Reply(SetFlow(ctxs, user_id, None, None, t), MaterialReply(IS \o course_codes[1]))
             ELSE Reply(SetFlow(ctxs, user_id, Some("learning_material"), Some(1), t),
                        MaterialPrompt)
     ELSE IF active_step = Some(1)
     THEN LET course_codes == Get(extract_entities(message), "course_code", <<>>)
          IN IF course_codes # <<>>
             THEN Reply(SetFlow(ctxs, user_id, None, None, t), MaterialReply(IS \o course_codes[1]))
             ELSE Reply(ctxs, NoCodeReply)
     ELSE Outcome(ctxs, PyNone, <<>>, <<>>)

(***************************************************************************)
(* The knowledge base service (knowledge-base/app.py).  The documents are  *)
(* loaded once; the score of a document is the fuzzy-match ratio of the    *)
(* query against its text, an input here.  Document texts are shorter than *)
(* the 500 characters the service keeps.                                   *)
(***************************************************************************)
NumDocs == 2

DocTitles == <<"Agile Handbook", "Cloud Notes", "ML Primer", "Quality Guide">>

\* the second document has no title
documents ==
  [i \in 1..NumDocs |->
     IF i = 2 THEN [text |-> "text of document " \o ToString(i)]
     ELSE [title |-> DocTitles[i], text |-> "text of document " \o ToString(i)]]

ScoreChoices == {50, 64, 65, 70}

RelevanceThreshold == 60

TopResults == 3

RECURSIVE Matching(_, _)
\* the results loop: one entry per document whose score exceeds the threshold
Matching(scores, i) ==
  IF i > Len(documents) THEN <<>>
  ELSE (IF scores[i] > RelevanceThreshold
        THEN <<[title |-> Get(documents[i], "title", "Untitled"),
                content |-> Get(documents[i], "text", "") \o "...",
                score |-> scores[i]]>>
        ELSE <<>>) \o Matching(scores, i + 1)

RECURSIVE InsertByScore(_, _)
InsertByScore(r, sorted) ==
  IF sorted = <<>> THEN <<r>>
  ELSE IF sorted[1].score >= r.score THEN <<sorted[1]>> \o InsertByScore(r, Tail(sorted))
  ELSE <<r>> \o sorted

RECURSIVE SortByScore(_, _)
\* results.sort(key=score, reverse=True): stable, descending
SortByScore(results, sorted) ==
  IF results = <<>> THEN sorted
  ELSE SortByScore(Tail(results), InsertByScore(results[1], sorted))

\* what a client of POST /search receives
KBResponse(status_code, valid_json, data) ==
  [kind |-> "response", status_code |-> status_code, valid_json |-> valid_json, data |-> data]

search(query, scores) ==
  IF query = <<>> THEN KBResponse(400, TRUE, [error |-> "Query is required"])
  ELSE LET results == SortByScore(Matching(scores, 1), <<>>)
           top_results == SubSeq(results, 1, IF Len(results) < TopResults THEN Len(results) ELSE TopResults)
       IN KBResponse(200, TRUE,
            [results |-> top_results,
             has_knowledge |-> Len(top_results) > 0,
             highest_score |-> IF top_results # <<>> THEN top_results[1].score ELSE 0])

(***************************************************************************)
(* What requests.post to the knowledge base can produce: an exception      *)
(* (timeout, connection failure), or a response; a response is the         *)
(* service's own, an error status, a body that is not JSON, or a 200 body  *)
(* with a field missing.                                                   *)
(***************************************************************************)
KBFailure(kind) == [kind |-> kind, status_code |-> 0, valid_json |-> FALSE, data |-> EmptyDict]

\* a query as process_message sends it: the message text, never empty
AnyQuery == <<"q">>

ServiceResponses == {search(AnyQuery, scores) : scores \in [1..NumDocs -> ScoreChoices]}

\* the dict without one named field of a result
WithoutResultField(data, i, field) ==
  [data EXCEPT !.results = [j \in 1..Len(data.results) |->
     IF j = i THEN DictWithout(data.results[j], field) ELSE data.results[j]]]

MalformedOf(r) ==
  {KBResponse(200, TRUE, DictWithout(r.data, k)) : k \in {"results", "has_knowledge", "highest_score"}}
  \cup {KBResponse(200, TRUE, WithoutResultField(r.data, i, "title")) : i \in 1..Len(r.data.results)}
  \cup {KBResponse(200, TRUE, WithoutResultField(r.data, i, "content")) : i \in 1..Len(r.data.results)}

\* an error status, with the body the service would have sent or without one
ErrorStatusOf(r) == {KBResponse(500, TRUE, r.data), KBResponse(500, FALSE, EmptyDict)}

KBOutcomes ==
  {KBFailure("timeout"), KBFailure("network"), KBResponse(200, FALSE, EmptyDict)}
  \cup ServiceResponses
  \cup UNION {ErrorStatusOf(r) : r \in ServiceResponses}
  \cup UNION {MalformedOf(r) : r \in ServiceResponses}

(***************************************************************************)
(* ClaudeAI.send_message.  The outcome of requests.post and of reading the *)
(* response is an input: success with the model's text, or the exception   *)
(* raised inside the try block, named by its class.                        *)
(***************************************************************************)
system_prompt ==
  "You are an AI assistant for SMU Master's Program students. Your role is to provide helpful, accurate information about courses, assignments, and learning materials.\n\n"
  \o "Focus on providing educational guidance and support. Keep your responses concise, informative, and tailored to academic contexts.\n\n"
  \o "When you don't know specific information about SMU programs, you should indicate this clearly rather than making up information.\n\n"
  \o "For course-specific queries, you have knowledge about the following courses:\n- IS621: Agile and DevSecOps\n- IS622: Cloud Computing and Container Architecture\n- IS623: AI and Machine Learning\n- IS624: Big Data and Analytics\n- IS625: Software Quality Management\n"

ModelTexts == {"model answer"}

TimeoutClasses == {"Timeout", "ConnectTimeout", "ReadTimeout"}

\* requests.exceptions.RequestException and its subclasses
RequestExceptionClasses ==
  TimeoutClasses \cup {"ConnectionError", "HTTPError", "RequestsJSONDecodeError"}

\* raised by response_data["content"][0]["text"] or by any other statement
OtherExceptionClasses == {"KeyError", "IndexError", "TypeError", "ValueError"}

ClaudeOutcomes ==
  {[kind |-> "ok", text |-> x] : x \in ModelTexts}
  \cup {[kind |-> e, text |-> ""] : e \in RequestExceptionClasses \cup OtherExceptionClasses}

DelayReply == "I'm currently experiencing delays. Please try again in a moment."

TroubleReply == "I'm currently having trouble answering complex questions. Please try a simpler question or try again later."

ApologyReply == "I encountered an unexpected error. Please try again with a different question."

\* send_message with the RequestException handler ahead of the Timeout handler
send_message_timeout_shadowed(user_message, conversation_history, custom_system_prompt, claude) ==
  LET messages == conversation_history \o <<[role |-> "user", content |-> user_message]>>
      request == [messages |-> messages,
                  system |-> IF custom_system_prompt # "" THEN custom_system_prompt ELSE system_prompt,
                  outcome |-> claude.kind]
  IN [request |-> request,
      text |-> IF claude.kind = "ok" THEN claude.text
               ELSE IF claude.kind \in RequestExceptionClasses THEN TroubleReply
               ELSE IF claude.kind \in TimeoutClasses THEN DelayReply
               ELSE ApologyReply]

\* the text returned and the request built (data["messages"], data["system"])
send_message(user_message, conversation_history, custom_system_prompt, claude) ==
  LET messages == conversation_history \o <<[role |-> "user", content |-> user_message]>>
      request == [messages |-> messages,
                  system |-> IF custom_system_prompt # "" THEN custom_system_prompt ELSE system_prompt,
                  outcome |-> claude.kind]
  IN [request |-> request,
      text |-> IF claude.kind = "ok" THEN claude.text
               ELSE IF claude.kind \in TimeoutClasses THEN DelayReply
               ELSE IF claude.kind \in RequestExceptionClasses THEN TroubleReply
               ELSE ApologyReply]

(***************************************************************************)
(* ClaudeAI.handle_multi_part_question                                     *)
(***************************************************************************)
KnowledgeHeader == "Here is some relevant information from SMU courses:\n\n"

KnowledgeFooter == "Please use this information to inform your response.\n\n"

KnowledgeThreshold == 65

NotInKnowledgeReply == "I don't have that in my knowledge."

RECURSIVE AppendResults(_, _, _)
\* the loop over results: the text assembled and whether result['title'] raised
AppendResults(results, i, acc) ==
  IF i > Len(results) THEN [text |-> acc, raised |-> FALSE]
  ELSE IF "title" \notin DOMAIN results[i] THEN [text |-> acc, raised |-> TRUE]
  ELSE AppendResults(results, i + 1,
         acc \o "--- " \o results[i].title \o " ---\n"
             \o Get(results[i], "content", Get(results[i], "text", "")) \o "\n\n")

\* QueryKnowledge without the test of the status code
QueryKnowledge_any_status(kb) ==
  LET nothing == [knowledge_context |-> "", knowledge_found |-> FALSE, highest_score |-> 0]
  IN IF kb.kind # "response" THEN nothing
     ELSE IF ~kb.valid_json THEN nothing
     ELSE LET results == Get(kb.data, "results", <<>>)
              found == Get(kb.data, "has_knowledge", FALSE)
              score == Get(kb.data, "highest_score", 0)
              loop == AppendResults(results, 1, KnowledgeHeader)
          IN [knowledge_context |-> IF results = <<>> THEN ""
                                    ELSE IF loop.raised THEN loop.text
                                    ELSE loop.text \o KnowledgeFooter,
              knowledge_found |-> found,
              highest_score |-> score]

\* the three locals after the try block of the knowledge-base query
QueryKnowledge(kb) ==
  LET nothing == [knowledge_context |-> "", knowledge_found |-> FALSE, highest_score |-> 0]
  IN IF kb.kind # "response" THEN nothing
     ELSE IF kb.status_code # 200 THEN nothing
     ELSE IF ~kb.valid_json THEN nothing
     ELSE LET results == Get(kb.data, "results", <<>>)
              found == Get(kb.data, "has_knowledge", FALSE)
              score == Get(kb.data, "highest_score", 0)
              loop == AppendResults(results, 1, KnowledgeHeader)
          IN [knowledge_context |-> IF results = <<>> THEN ""
                                    ELSE IF loop.raised THEN loop.text
                                    ELSE loop.text \o KnowledgeFooter,
              knowledge_found |-> found,
              highest_score |-> score]

\* GateRejects with "and" for "or"
GateRejects_needs_both(message, k) ==
  /\ ~k.knowledge_found /\ k.highest_score < KnowledgeThreshold
  /\ ~is_technical_question(message)
  /\ ~is_basic_question(message)

\* GateRejects with <= for <
GateRejects_off_by_one(message, k) ==
  /\ ~k.knowledge_found \/ k.highest_score <= KnowledgeThreshold
  /\ ~is_technical_question(message)
  /\ ~is_basic_question(message)

\* TRUE when the gate returns the "not in knowledge" message
GateRejects(message, k) ==
  /\ ~k.knowledge_found \/ k.highest_score < KnowledgeThreshold
  /\ ~is_technical_question(message)
  /\ ~is_basic_question(message)

handle_multi_part_question(ctxs, user_id, message, context, kb, claude) ==
  LET k == QueryKnowledge(kb)
      queries == <<[query |-> message]>>
  IN IF GateRejects(message, k)
     THEN Outcome(ctxs, Text(NotInKnowledgeReply), queries, <<>>)
     ELSE LET conversation_history == Get(context, "claude_conversation", <<>>)
              enhanced_system_prompt ==
                IF k.knowledge_context # "" THEN system_prompt \o "\n\n" \o k.knowledge_context
                ELSE system_prompt
              sent == send_message(message, conversation_history, enhanced_system_prompt, claude)
          IN Outcome(ctxs, Text(sent.text), queries, <<sent.request>>)

_handle_complex_question(ctxs, user_id, message, context, enabled, kb, claude) ==
  IF ~enabled
  THEN Reply(ctxs, "I'm not currently able to handle complex questions. Please try asking a more specific question about courses, assignments, or learning materials.")
  ELSE handle_multi_part_question(ctxs, user_id, message, context, kb, claude)

(***************************************************************************)
(* MultiPartQuestionHandler._check_user_authenticated and process_message  *)
(* (the second definition of process_message in the class, which replaces  *)
(* the first).                                                             *)
(***************************************************************************)
AuthOutcomes == {"authenticated", "not_authenticated", "bad_status", "request_error", "other_error"}

_check_user_authenticated(dev_mode, docker, localhost) ==
  IF dev_mode THEN TRUE
  ELSE IF docker = "authenticated" THEN TRUE
  ELSE IF docker = "not_authenticated" THEN FALSE
  ELSE IF docker = "other_error" THEN TRUE
  ELSE IF localhost = "authenticated" THEN TRUE
  ELSE IF localhost = "not_authenticated" THEN FALSE
  ELSE TRUE

AuthResults ==
  {_check_user_authenticated(dev_mode, docker, localhost) :
     dev_mode \in BOOLEAN, docker \in AuthOutcomes, localhost \in AuthOutcomes}

FlowNames == {"course_info", "assignment", "grades", "learning_material", "complex_question"}

\* self.flows[name](user_id, message, context)
CallFlow(name, ctxs, user_id, message, context, t, enabled, kb, claude) ==
  CASE name = "course_info" -> _handle_course_info_flow(ctxs, user_id, message, context, t)
    [] name = "assignment" -> _handle_assignment_flow(ctxs, user_id, message, context, t)
    [] name = "grades" -> _handle_grades_flow(ctxs, user_id, message, context, t)
    [] name = "learning_material" -> _handle_learning_material_flow(ctxs, user_id, message, context, t)
    [] name = "complex_question" -> _handle_complex_question(ctxs, user_id, message, context, enabled, kb, claude)

\* a threshold of 0.25 for the low-confidence route
LowConfidence_quarter == [num |-> 1, den |-> 4]

\* intent[1] < 0.2
LowConfidence == [num |-> 1, den |-> 5]

AuthLinkReply(user_id) ==
  "Welcome to the SMU Master's Program AI Assistant!\n\nTo use this bot, you need to authenticate with your SMU email address.\n\nPlease click this link to authenticate: http://localhost:5050/login/" \o Str(user_id)

\* process_message checking the complexity of the message before the active flow
process_message_complex_first(ctxs, user_id, message, t, enabled, is_authenticated, kb, claude) ==
  IF ~is_authenticated THEN Reply(ctxs, AuthLinkReply(user_id))
  ELSE IF MsgTable[message].complex /\ enabled
  THEN _handle_complex_question(
         set_context(get_context(ctxs, user_id, t).contexts, user_id,
                     [last_intent |-> "complex_question", last_message |-> message], t),
         user_id, message,
         IF get_context(ctxs, user_id, t).value = None THEN EmptyDict
         ELSE get_context(ctxs, user_id, t).value[1],
         enabled, kb, claude)
  ELSE
    LET got == get_context(ctxs, user_id, t)
        context == IF got.value = None THEN EmptyDict ELSE got.value[1]
        active_flow == Get(context, "active_flow", None)
        active_step == Get(context, "active_step", None)
    IN IF /\ active_flow # None
          /\ active_step # None
          /\ active_flow[1] \in FlowNames
       THEN CallFlow(active_flow[1], got.contexts, user_id, message, context, t, enabled, kb, claude)
       ELSE IF MsgTable[message].complex /\ enabled
       THEN _handle_complex_question(
              set_context(got.contexts, user_id,
                          [last_intent |-> "complex_question", last_message |-> message], t),
              user_id, message, context, enabled, kb, claude)
       ELSE LET intent == MsgTable[message].intent
                entities == MsgTable[message].entities
                stored == set_context(got.contexts, user_id,
                            [last_intent |-> intent.intent,
                             last_confidence |-> [num |-> intent.num, den |-> intent.den],
                             last_entities |-> entities], t)
            IN IF intent.intent \in FlowNames
               THEN CallFlow(intent.intent, stored, user_id, message, context, t, enabled, kb, claude)
               ELSE IF ScoreLess(intent, LowConfidence) /\ enabled
               THEN _handle_complex_question(stored, user_id, message, context, enabled, kb, claude)
               ELSE Reply(stored, "I'll help you with your '" \o intent.intent \o "' question about SMU courses.")

process_message(ctxs, user_id, message, t, enabled, is_authenticated, kb, claude) ==
  IF ~is_authenticated THEN Reply(ctxs, AuthLinkReply(user_id))
  ELSE
    LET got == get_context(ctxs, user_id, t)
        context == IF got.value = None THEN EmptyDict ELSE got.value[1]
        active_flow == Get(context, "active_flow", None)
        active_step == Get(context, "active_step", None)
    IN IF /\ active_flow # None
          /\ active_step # None
          /\ active_flow[1] \in FlowNames
       THEN CallFlow(active_flow[1], got.contexts, user_id, message, context, t, enabled, kb, claude)
       ELSE IF MsgTable[message].complex /\ enabled
       THEN _handle_complex_question(
              set_context(got.contexts, user_id,
                          [last_intent |-> "complex_question", last_message |-> message], t),
              user_id, message, context, enabled, kb, claude)
       ELSE LET intent == MsgTable[message].intent
                entities == MsgTable[message].entities
                stored == set_context(got.contexts, user_id,
                            [last_intent |-> intent.intent,
                             last_confidence |-> [num |-> intent.num, den |-> intent.den],
                             last_entities |-> entities], t)
            IN IF intent.intent \in FlowNames
               THEN CallFlow(intent.intent, stored, user_id, message, context, t, enabled, kb, claude)
               ELSE IF ScoreLess(intent, LowConfidence) /\ enabled
               THEN _handle_complex_question(stored, user_id, message, context, enabled, kb, claude)
               ELSE Reply(stored, "I'll help you with your '" \o intent.intent \o "' question about SMU courses.")

(***************************************************************************)
(* The state: the handler's ContextManager store, the clock, whether the   *)
(* external model is enabled, and the record of the last turn.  gate holds *)
(* the inputs and the result of one call of ClaudeAI taken on its own.     *)
(* heap holds the mutable objects (dicts, lists) that stored values and    *)
(* returned values refer to, call the last call of a ContextManager method *)
(* with the value it returned, threads the turns that are in progress when *)
(* turns overlap, and bot the last update handled by an entry point.       *)
(***************************************************************************)
VARIABLES contexts, now, claude_enabled, turn, gate, heap, call, threads, bot

vars == <<contexts, now, claude_enabled, turn, gate, heap, call, threads, bot>>

Users == {<<"1">>}

MaxTime == 800

TickSteps == {400}

\* the messages of the dialog
TurnMessages ==
  {msg_tell_IS621, msg_course, msg_task, msg_project, msg_study, msg_compare, msg_python}

\* the knowledge-base and model outcomes drawn in a dialog turn
TurnKB == {KBFailure("timeout"), search(AnyQuery, [i \in 1..NumDocs |-> 70])}

TurnClaude == {c \in ClaudeOutcomes : c.kind \in {"ok", "Timeout"}}

NoOutcome == Outcome(EmptyDict, PyNone, <<>>, <<>>)

\* seq alternates from turn to turn, so that a turn is always a step
NoTurn ==
  [seq |-> 0, user_id |-> <<>>, message |-> <<>>, is_authenticated |-> FALSE,
   reply |-> PyNone, kb_queries |-> <<>>, model_calls |-> <<>>]

TurnRecord(user_id, message, is_authenticated, out) ==
  [seq |-> 1 - turn.seq, user_id |-> user_id, message |-> message,
   is_authenticated |-> is_authenticated, reply |-> out.reply,
   kb_queries |-> out.kb_queries, model_calls |-> out.model_calls]

NoGate ==
  [stage |-> "idle", message |-> <<>>, context |-> EmptyDict,
   kb |-> KBFailure("timeout"), claude |-> [kind |-> "Timeout", text |-> ""],
   history |-> <<>>, custom_system_prompt |-> "", result |-> NoOutcome]

NoCall ==
  [seq |-> 0, op |-> "none", user_id |-> <<>>, key |-> "", data |-> EmptyDict, value |-> None,
   mutated |-> "none", had_record |-> FALSE]

NoBot == [entry |-> "none", fault |-> "none", sent |-> <<>>, propagated |-> FALSE]

\* the parts of the state that only the other specifications use
Idle == heap = <<>> /\ call = NoCall /\ threads = EmptyDict /\ bot = NoBot

IdleUnchanged == UNCHANGED <<heap, call, threads, bot>>

Init ==
  /\ contexts = EmptyDict
  /\ now = 0
  /\ claude_enabled \in BOOLEAN
  /\ turn = NoTurn
  /\ gate = NoGate
  /\ Idle

\* one inbound message, handled to completion.  The knowledge base and the
\* external model answer only in a turn that queries the knowledge base.
ProcessMessage(user_id, message) ==
  /\ \E is_authenticated \in AuthResults :
       LET probe == process_message(contexts, user_id, message, now, claude_enabled,
                                    is_authenticated, KBFailure("timeout"),
                                    [kind |-> "Timeout", text |-> ""])
       IN IF probe.kb_queries = <<>>
          THEN /\ contexts' = probe.contexts
               /\ turn' = TurnRecord(user_id, message, is_authenticated, probe)
          ELSE \E kb \in TurnKB, claude \in TurnClaude :
                 LET out == process_message(contexts, user_id, message, now, claude_enabled,
                                            is_authenticated, kb, claude)
                 IN /\ contexts' = out.contexts
                    /\ turn' = TurnRecord(user_id, message, is_authenticated, out)
  /\ UNCHANGED <<now, claude_enabled, gate>>
  /\ IdleUnchanged

\* time passes between turns
Tick ==
  /\ \E d \in TickSteps : now + d <= MaxTime /\ now' = now + d
  /\ UNCHANGED <<contexts, claude_enabled, turn, gate>>
  /\ IdleUnchanged

Next ==
  \/ \E user_id \in Users, message \in TurnMessages : ProcessMessage(user_id, message)
  \/ Tick

Spec == Init /\ [][Next]_vars

(***************************************************************************)
(* ClaudeAI on its own: handle_multi_part_question and send_message are    *)
(* functions of their arguments and of what the two services answer.       *)
(***************************************************************************)
GateMessages == {msg_compare, msg_ok, msg_python, msg_hello, msg_bye}

\* contexts as process_message passes them: no key claude_conversation is ever stored
GateContexts == {EmptyDict, [last_intent |-> "complex_question", last_message |-> msg_compare]}

\* conversation_history as a caller of send_message may pass it
Histories ==
  {<<>>,
   <<[role |-> "user", content |-> msg_hello], [role |-> "assistant", content |-> msg_ok]>>}

GateInput(stage, message, context, kb, claude, history, custom_system_prompt) ==
  [stage |-> stage, message |-> message, context |-> context, kb |-> kb, claude |-> claude,
   history |-> history, custom_system_prompt |-> custom_system_prompt, result |-> NoOutcome]

InitGate ==
  /\ contexts = EmptyDict
  /\ now = 0
  /\ claude_enabled = TRUE
  /\ turn = NoTurn
  /\ Idle
  /\ \/ \E message \in GateMessages, context \in GateContexts, kb \in KBOutcomes, claude \in ClaudeOutcomes :
          gate = GateInput("handle_input", message, context, kb, claude, <<>>, "")
     \/ \E message \in GateMessages, history \in Histories, claude \in ClaudeOutcomes,
           custom_system_prompt \in {"", "custom instructions"} :
          gate = GateInput("send_input", message, EmptyDict, KBFailure("timeout"), claude,
                           history, custom_system_prompt)

HandleMultiPartQuestion ==
  /\ gate.stage = "handle_input"
  /\ gate' = [gate EXCEPT !.stage = "handled",
                          !.result = handle_multi_part_question(contexts, <<"1">>, gate.message,
                                       gate.context, gate.kb, gate.claude)]
  /\ UNCHANGED <<contexts, now, claude_enabled, turn>>
  /\ IdleUnchanged

SendMessage ==
  /\ gate.stage = "send_input"
  /\ LET sent == send_message(gate.message, gate.history, gate.custom_system_prompt, gate.claude)
     IN gate' = [gate EXCEPT !.stage = "sent",
                             !.result = Outcome(contexts, Text(sent.text), <<>>, <<sent.request>>)]
  /\ UNCHANGED <<contexts, now, claude_enabled, turn>>
  /\ IdleUnchanged

NextGate == HandleMultiPartQuestion \/ SendMessage

SpecGate == InitGate /\ [][NextGate]_vars

(***************************************************************************)
(* Vocabulary of the properties                                            *)
(***************************************************************************)
\* the context process_message reads at the start of a turn
ContextRead(ctxs, user_id, t) ==
  LET got == get_context(ctxs, user_id, t)
  IN IF got.value = None THEN EmptyDict ELSE got.value[1]

\* the stored record of a user, internal key included
Stored(ctxs, user_id) == IF user_id \in DOMAIN ctxs THEN ctxs[user_id] ELSE EmptyDict

ActivePair(context) == <<Get(context, "active_flow", None), Get(context, "active_step", None)>>

NoFlow == <<None, None>>

HasActiveFlow(context) == ActivePair(context)[1] # None /\ ActivePair(context)[2] # None

CodesOf(message) == Get(MsgTable[message].entities, "course_code", <<>>)

\* a step that is a turn of process_message
TurnStep == turn'.seq # turn.seq

\* every course code, as "IS" + digits, that a message of the model carries
KnownCourses == UNION {{IS \o CodesOf(m)[i] : i \in 1..Len(CodesOf(m))} : m \in Messages}

(***************************************************************************)
(* C1: for an authenticated user with no active flow, a non-complex        *)
(* message classified as course_info that carries a course code of the     *)
(* static table is answered in that turn with the static description of    *)
(* the course, with no knowledge search and no model call, and the turn    *)
(* ends with active_flow and active_step both none.                        *)
(***************************************************************************)
C1_StaticAnswerInSameTurn ==
  [][(/\ TurnStep
      /\ turn'.is_authenticated
      /\ ~HasActiveFlow(ContextRead(contexts, turn'.user_id, now))
      /\ ~MsgTable[turn'.message].complex
      /\ MsgTable[turn'.message].intent.intent = "course_info"
      /\ CodesOf(turn'.message) # <<>>
      /\ (IS \o CodesOf(turn'.message)[1]) \in DOMAIN course_info)
     => (/\ turn'.reply = Text(course_info[IS \o CodesOf(turn'.message)[1]])
         /\ turn'.kb_queries = <<>>
         /\ turn'.model_calls = <<>>
         /\ ActivePair(Stored(contexts', turn'.user_id)) = NoFlow)]_vars

(***************************************************************************)
(* C2: when the course_info flow starts with no course code in the         *)
(* entities it reads, the turn replies with the prompt for a code and      *)
(* leaves (course_info, 1); when the next message of the user, within the  *)
(* expiry window, carries a course code, that turn replies with the course *)
(* answer and leaves active_flow and active_step both none.                *)
(***************************************************************************)
StartsCourseInfoWithoutCode ==
  LET context == ContextRead(contexts, turn'.user_id, now)
  IN /\ TurnStep
     /\ turn'.is_authenticated
     /\ ~HasActiveFlow(context)
     /\ ~(MsgTable[turn'.message].complex /\ claude_enabled)
     /\ MsgTable[turn'.message].intent.intent = "course_info"
     /\ Get(Get(context, "last_entities", EmptyDict), "course_code", <<>>) = <<>>

AnswersCourseInfoPrompt ==
  /\ TurnStep
  /\ turn'.is_authenticated
  /\ ActivePair(ContextRead(contexts, turn'.user_id, now)) = <<Some("course_info"), Some(1)>>
  /\ CodesOf(turn'.message) # <<>>

C2_CourseInfoRoundTrip ==
  [][/\ StartsCourseInfoWithoutCode
        => /\ turn'.reply = Text(CourseInfoPrompt)
           /\ ActivePair(Stored(contexts', turn'.user_id)) = <<Some("course_info"), Some(1)>>
     /\ AnswersCourseInfoPrompt
        => /\ turn'.reply = Text(_get_course_info(IS \o CodesOf(turn'.message)[1]))
           /\ ActivePair(Stored(contexts', turn'.user_id)) = NoFlow]_vars

\* the round trip has completed: the answer for IS621 was given at step 1, after
\* a flow that started on a message without a code
C2_RoundTripDone ==
  /\ turn.message = msg_tell_IS621
  /\ turn.reply = Text(course_info[IS \o <<"6","2","1">>])
  /\ "active_flow" \in DOMAIN Stored(contexts, turn.user_id)
  /\ ActivePair(Stored(contexts, turn.user_id)) = NoFlow
  /\ Get(Get(Stored(contexts, turn.user_id), "last_entities", EmptyDict), "course_code", <<>>) = <<>>

(***************************************************************************)
(* C3: after every turn and for every user, active_flow is none iff        *)
(* active_step is none and an active pair is one of (course_info, 1),      *)
(* (assignment, 1), (assignment, 2), (learning_material, 1); a turn that   *)
(* completed a flow leaves both none, and a turn that asks for more        *)
(* information leaves the flow's own name and an integer step.             *)
(***************************************************************************)
ActivePairs ==
  {<<Some("course_info"), Some(1)>>, <<Some("assignment"), Some(1)>>,
   <<Some("assignment"), Some(2)>>, <<Some("learning_material"), Some(1)>>}

\* the replies that end a flow
CompletionReplies ==
  {_get_course_info(c) : c \in KnownCourses}
  \cup {MaterialReply(c) : c \in KnownCourses}
  \cup UNION {{AssignmentsReply(c), ProjectReply(c), ExamReply(c), MenuReply(c)} :
                c \in {Str(k) : k \in KnownCourses} \cup {"unknown"}}

C3_FlowAndStepPaired ==
  /\ \A user_id \in DOMAIN contexts : ActivePair(contexts[user_id]) \in ActivePairs \cup {NoFlow}
  /\ turn.reply # PyNone =>
       LET pair == ActivePair(Stored(contexts, turn.user_id))
           reply == turn.reply[1]
       IN /\ reply = CourseInfoPrompt => pair = <<Some("course_info"), Some(1)>>
          /\ reply = AssignmentPrompt => pair = <<Some("assignment"), Some(1)>>
          /\ reply = MaterialPrompt => pair = <<Some("learning_material"), Some(1)>>
          /\ reply \in {AskKindReply(c) : c \in KnownCourses} => pair = <<Some("assignment"), Some(2)>>
          /\ reply = NoCodeReply => pair \in ActivePairs /\ pair[2] = Some(1)
          /\ reply \in CompletionReplies => pair = NoFlow

\* a turn has moved the assignment flow from step 1 to step 2
C3_AssignmentAtStepTwo ==
  /\ turn.is_authenticated
  /\ ActivePair(Stored(contexts, turn.user_id)) = <<Some("assignment"), Some(2)>>
  /\ turn.reply = Text(AskKindReply(IS \o <<"6","2","2">>))

(***************************************************************************)
(* Vocabulary of the gate properties                                       *)
(***************************************************************************)
Handled == gate.stage = "handled"

Allowlisted(message) == is_technical_question(message) \/ is_basic_question(message)

\* a 200 response with a JSON body
Status200(kb) == kb.kind = "response" /\ kb.status_code = 200 /\ kb.valid_json

\* the search call fails: timeout, network error or a status other than 200
SearchFails(kb) == kb.kind # "response" \/ kb.status_code # 200

\* a 200 body with the three fields, every result with a title and a content
WellFormed(kb) ==
  /\ Status200(kb)
  /\ {"results", "has_knowledge", "highest_score"} \subseteq DOMAIN kb.data
  /\ \A i \in 1..Len(kb.data.results) :
       {"title", "content"} \subseteq DOMAIN kb.data.results[i]

\* a 200 body that lacks a field, or has a result without a title
Malformed(kb) ==
  /\ Status200(kb)
  /\ \/ ~({"results", "has_knowledge", "highest_score"} \subseteq DOMAIN kb.data)
     \/ \E i \in 1..Len(kb.data.results) : "title" \notin DOMAIN kb.data.results[i]

Rejected == gate.result.reply = Text(NotInKnowledgeReply) /\ gate.result.model_calls = <<>>

\* exactly one request to the model, with these system instructions
CalledOnceWith(system) ==
  /\ Len(gate.result.model_calls) = 1
  /\ gate.result.model_calls[1].system = system

RECURSIVE EntriesOf(_)
\* "--- title ---\ncontent\n\n" for every result, in result order
EntriesOf(results) ==
  IF results = <<>> THEN ""
  ELSE EntriesOf(SubSeq(results, 1, Len(results) - 1))
         \o "--- " \o results[Len(results)].title \o " ---\n"
         \o results[Len(results)].content \o "\n\n"

KnowledgeBlock(results) == KnowledgeHeader \o EntriesOf(results) \o KnowledgeFooter

(***************************************************************************)
(* C4: whenever the knowledge search reports has_knowledge = false or      *)
(* highest_score < 65 and the message is neither technical nor basic, the  *)
(* result is exactly "I don't have that in my knowledge." and the external *)
(* model is not called.                                                    *)
(***************************************************************************)
ReportsNoKnowledge(kb) ==
  /\ Status200(kb)
  /\ {"has_knowledge", "highest_score"} \subseteq DOMAIN kb.data
  /\ ~kb.data.has_knowledge \/ kb.data.highest_score < 65

C4_LowScoreRejected ==
  (Handled /\ ReportsNoKnowledge(gate.kb) /\ ~Allowlisted(gate.message)) => Rejected

\* the service found a document scored 64 and the message was rejected
C4_Score64Rejected ==
  /\ Handled
  /\ gate.kb \in ServiceResponses
  /\ gate.kb.data.has_knowledge
  /\ gate.kb.data.highest_score = 64
  /\ gate.message = msg_compare
  /\ Rejected

(***************************************************************************)
(* C5: whenever the knowledge search succeeds with has_knowledge = true    *)
(* and highest_score >= 65, the external model is called exactly once and  *)
(* its system instructions are the default instructions followed by the    *)
(* knowledge block assembled from the title and content of every returned  *)
(* result, in result order; never the bare default instructions.           *)
(***************************************************************************)
C5_KnowledgeAugmentedCall ==
  (Handled /\ WellFormed(gate.kb) /\ gate.kb.data.has_knowledge /\ gate.kb.data.highest_score >= 65)
    => /\ CalledOnceWith(system_prompt \o "\n\n" \o KnowledgeBlock(gate.kb.data.results))
       /\ gate.result.model_calls[1].system # system_prompt

\* two results were returned and both are in the instructions of the one call
C5_TwoResultsInjected ==
  /\ Handled
  /\ gate.kb \in ServiceResponses
  /\ Len(gate.kb.data.results) = 2
  /\ gate.kb.data.highest_score = 70
  /\ gate.message = msg_compare
  /\ CalledOnceWith(system_prompt \o "\n\n" \o KnowledgeBlock(gate.kb.data.results))

(***************************************************************************)
(* C6: when the knowledge search fails (timeout, network error, status     *)
(* other than 200) the handler still returns a text: a message outside the *)
(* allowlists is rejected with the fixed string, an allowlisted message    *)
(* reaches the external model with the default instructions only.          *)
(***************************************************************************)
C6_SearchFailureFailsOpen ==
  (Handled /\ SearchFails(gate.kb))
    => /\ gate.result.reply # PyNone
       /\ ~Allowlisted(gate.message) => Rejected
       /\ Allowlisted(gate.message) => CalledOnceWith(system_prompt)

\* an error status whose body carries knowledge, and an allowlisted message
C6_ErrorStatusIgnored ==
  /\ Handled
  /\ gate.kb.kind = "response"
  /\ gate.kb.status_code = 500
  /\ Get(gate.kb.data, "has_knowledge", FALSE)
  /\ gate.message = msg_python
  /\ CalledOnceWith(system_prompt)

(***************************************************************************)
(* C7: a malformed 200 response (has_knowledge, highest_score or results   *)
(* missing, or a result without a title) is treated as absence of          *)
(* knowledge: the gate is evaluated with has_knowledge = false and         *)
(* highest_score = 0 and no knowledge text reaches the model.              *)
(***************************************************************************)
C7_MalformedIsNoKnowledge ==
  (Handled /\ Malformed(gate.kb))
    => /\ ~Allowlisted(gate.message) => Rejected
       /\ Allowlisted(gate.message) => CalledOnceWith(system_prompt)

(***************************************************************************)
(* C8: send_message always returns a text: the model's text on success,    *)
(* the "delays" message on a timeout, the "trouble" message on any other   *)
(* request-level error, the generic apology on any other failure.          *)
(***************************************************************************)
C8_SendMessageAlwaysReplies ==
  gate.stage = "sent" =>
    /\ gate.result.reply # PyNone
    /\ gate.claude.kind = "ok" => gate.result.reply = Text(gate.claude.text)
    /\ gate.claude.kind \in {"Timeout", "ConnectTimeout", "ReadTimeout"}
         => gate.result.reply = Text(DelayReply)
    /\ gate.claude.kind \in {"ConnectionError", "HTTPError", "RequestsJSONDecodeError"}
         => gate.result.reply = Text(TroubleReply)
    /\ gate.claude.kind \in {"KeyError", "IndexError", "TypeError", "ValueError"}
         => gate.result.reply = Text(ApologyReply)

\* the request timed out and the caller got the "delays" message
C8_TimeoutRecovered ==
  /\ gate.stage = "sent"
  /\ gate.claude.kind = "ReadTimeout"
  /\ gate.result.reply = Text(DelayReply)

(***************************************************************************)
(* C9: after every turn in which the external-model call succeeds, the     *)
(* stored claude_conversation of the user ends with the user message of    *)
(* the turn followed by the reply of the model.                            *)
(***************************************************************************)
C9_ExchangeRecorded ==
  (turn.model_calls # <<>> /\ turn.model_calls[1].outcome = "ok")
    => LET history == Get(Stored(contexts, turn.user_id), "claude_conversation", <<>>)
       IN /\ Len(history) >= 2
          /\ history[Len(history) - 1] = [role |-> "user", content |-> turn.message]
          /\ history[Len(history)].role = "assistant"

(***************************************************************************)
(* ContextManager on its own: the four methods called in any order by a    *)
(* caller that keeps the value get_context returned and may change it.     *)
(* A stored value is a string or a reference to a mutable object of heap:  *)
(* dict.update and dict.copy copy references, not objects.                 *)
(***************************************************************************)
CMUsers == {<<"1">>, <<"2">>}

CMTickSteps == {300, 301}

MaxObjects == 1

Scalar(s) == <<"str", s>>

Ref(id) == <<"ref", id>>

IsRef(v) == v[1] = "ref"

ObjectId(n) == "o" \o ToString(n)

\* the entities of a message, as process_message stores them
NewObject == [course_code |-> <<"621">>]

\* what a caller does to a nested dict it holds
MutatedObject == [course_code |-> <<"999">>]

\* the mappings of the lifecycle test, a partial mapping, and one with a nested dict
CMData(h) ==
  {[key1 |-> Scalar("value1"), key2 |-> Scalar("value2")], [key1 |-> Scalar("other")]}
  \cup (IF Cardinality(DOMAIN h) < MaxObjects
        THEN {[last_entities |-> Ref(ObjectId(Cardinality(DOMAIN h) + 1))]} ELSE {})

CMUpdates == {<<"key1", Scalar("new_value")>>}

CallRecord(op, user_id, key, data, value) ==
  [seq |-> 1 - call.seq, op |-> op, user_id |-> user_id, key |-> key, data |-> data,
   value |-> value, mutated |-> "none", had_record |-> user_id \in DOMAIN contexts]

InitCM ==
  /\ contexts = EmptyDict
  /\ now = 0
  /\ claude_enabled = TRUE
  /\ turn = NoTurn
  /\ gate = NoGate
  /\ heap = <<>>
  /\ call = NoCall
  /\ threads = EmptyDict
  /\ bot = NoBot

SetContext(user_id, context_data) ==
  /\ contexts' = set_context(contexts, user_id, context_data, now)
  /\ heap' = IF "last_entities" \in DOMAIN context_data
             THEN (context_data.last_entities[2] :> NewObject) @@ heap ELSE heap
  /\ call' = CallRecord("set_context", user_id, "", context_data, None)
  /\ UNCHANGED <<now, claude_enabled, turn, gate, threads, bot>>

GetContext(user_id) ==
  /\ LET got == get_context(contexts, user_id, now)
     IN /\ contexts' = got.contexts
        /\ call' = CallRecord("get_context", user_id, "", EmptyDict, got.value)
  /\ UNCHANGED <<now, claude_enabled, turn, gate, heap, threads, bot>>

UpdateContext(user_id, key, value) ==
  /\ contexts' = update_context(contexts, user_id, key, value, now)
  /\ call' = CallRecord("update_context", user_id, key, (key :> value), None)
  /\ UNCHANGED <<now, claude_enabled, turn, gate, heap, threads, bot>>

ClearContext(user_id) ==
  /\ contexts' = clear_context(contexts, user_id)
  /\ call' = CallRecord("clear_context", user_id, "", EmptyDict, None)
  /\ UNCHANGED <<now, claude_enabled, turn, gate, heap, threads, bot>>

\* the caller assigns a key of the dict it was returned
MutateReturned ==
  /\ call.op = "get_context" /\ call.value # None /\ call.mutated = "none"
  /\ call' = [call EXCEPT !.mutated = "top",
                          !.value = Some(("key1" :> Scalar("changed")) @@ call.value[1])]
  /\ UNCHANGED <<contexts, now, claude_enabled, turn, gate, heap, threads, bot>>

\* the caller assigns inside a nested dict of the dict it was returned
MutateNested ==
  /\ call.op = "get_context" /\ call.value # None /\ call.mutated = "none"
  /\ \E k \in DOMAIN call.value[1] :
       /\ IsRef(call.value[1][k])
       /\ heap' = [heap EXCEPT ![call.value[1][k][2]] = MutatedObject]
  /\ call' = [call EXCEPT !.mutated = "nested"]
  /\ UNCHANGED <<contexts, now, claude_enabled, turn, gate, threads, bot>>

TickCM ==
  /\ \E d \in CMTickSteps : now + d <= MaxTime /\ now' = now + d
  /\ UNCHANGED <<contexts, claude_enabled, turn, gate, heap, call, threads, bot>>

NextCM ==
  \/ \E user_id \in CMUsers : \E context_data \in CMData(heap) : SetContext(user_id, context_data)
  \/ \E user_id \in CMUsers : GetContext(user_id)
  \/ \E user_id \in CMUsers, u \in CMUpdates : UpdateContext(user_id, u[1], u[2])
  \/ \E user_id \in CMUsers : ClearContext(user_id)
  \/ MutateReturned
  \/ MutateNested
  \/ TickCM

SpecCM == InitCM /\ [][NextCM]_vars

(***************************************************************************)
(* Vocabulary of the ContextManager properties                             *)
(***************************************************************************)
\* the record of the user is older than the expiry window
Expired(ctxs, user_id, t) ==
  user_id \in DOMAIN ctxs /\ t - Get(ctxs[user_id], "_last_updated", 0) > ExpirySeconds

\* what get_context would return
Returned(ctxs, user_id, t) == get_context(ctxs, user_id, t).value

\* a step that is a call of the named method
CallStep(op) == call'.seq # call.seq /\ call'.op = op

\* a step in which the caller changes the value it was returned
MutationStep == call'.seq = call.seq /\ call.mutated = "none" /\ call'.mutated # "none"

Deref(v, h) == IF IsRef(v) THEN <<"obj", h[v[2]]>> ELSE v

\* what get_context would return, with the objects it refers to
View(ctxs, h, user_id, t) ==
  LET r == Returned(ctxs, user_id, t)
  IN IF r = None THEN None ELSE Some([k \in DOMAIN r[1] |-> Deref(r[1][k], h)])

C13_ExpiredRecordIsAbsent ==
  [][\A u \in CMUsers :
       (Expired(contexts, u, now) /\ call'.seq # call.seq /\ call'.user_id = u) =>
         /\ call'.op = "set_context" => Returned(contexts', u, now') = Some(call'.data)
         /\ call'.op = "update_context" => Returned(contexts', u, now') = None]_vars

(***************************************************************************)
(* C14: the value get_context returns has no internal key and is a copy:   *)
(* whatever the caller changes in it, at the top level or inside a nested  *)
(* value, a later get_context returns what it would have returned.         *)
(***************************************************************************)
C14_ReturnedValueIsACopy ==
  [][/\ (CallStep("get_context") /\ call'.value # None) =>
          "_last_updated" \notin DOMAIN call'.value[1]
     /\ MutationStep =>
          \A u \in CMUsers : View(contexts', heap', u, now') = View(contexts, heap, u, now)]_vars

(***************************************************************************)
(* C15: update_context on a user with no record changes nothing and        *)
(* get_context is still absent; on a user with a record it sets that key,  *)
(* refreshes _last_updated and leaves every other key and every other      *)
(* user as they were.                                                      *)
(***************************************************************************)
C15_UpdateContextFrame ==
  [][CallStep("update_context") =>
       LET u == call'.user_id
           k == call'.key
       IN IF u \notin DOMAIN contexts
          THEN contexts' = contexts /\ Returned(contexts', u, now') = None
          ELSE /\ DOMAIN contexts' = DOMAIN contexts
               /\ \A w \in DOMAIN contexts \ {u} : contexts'[w] = contexts[w]
               /\ DOMAIN contexts'[u] = DOMAIN contexts[u] \cup {k}
               /\ contexts'[u][k] = call'.data[k]
               /\ contexts'[u]["_last_updated"] = now
               /\ \A j \in DOMAIN contexts[u] \ {k, "_last_updated"} :
                    contexts'[u][j] = contexts[u][j]]_vars

\* update_context was called for a user without a record while another user has one
C15_UpdateWithoutRecord ==
  /\ call.op = "update_context"
  /\ ~call.had_record
  /\ call.user_id \notin DOMAIN contexts
  /\ contexts # EmptyDict

(***************************************************************************)
(* C18: every turn of process_message, for every context state a user can  *)
(* be in, returns a text string and never an absent value: the flow        *)
(* handler selected always has a branch for the active_step it reads.      *)
(***************************************************************************)
C18_ReplyIsAlwaysText ==
  turn.user_id # <<>> => turn.reply # PyNone

\* a turn continued the assignment flow at step 2 and answered about the project
C18_StepTwoAnswered ==
  /\ turn.message = msg_project
  /\ \E c \in KnownCourses : turn.reply = Text(ProjectReply(Str(c)))

(***************************************************************************)
(* Two users talking to the same handler, one turn at a time.              *)
(***************************************************************************)
Users2 == {<<"1">>, <<"2">>}

UsersMessages == {msg_tell_IS621, msg_task}

NextUsers ==
  \/ \E user_id \in Users2, message \in UsersMessages : ProcessMessage(user_id, message)
  \/ Tick

SpecUsers == Init /\ [][NextUsers]_vars

\* the store with the records of the users of S only
Restrict(ctxs, S) == [x \in DOMAIN ctxs \cap S |-> ctxs[x]]

\* the record of v, or its absence, is the same in both stores
SameRecord(ctxs1, ctxs2, v) ==
  /\ v \in DOMAIN ctxs1 <=> v \in DOMAIN ctxs2
  /\ v \in DOMAIN ctxs1 => ctxs1[v] = ctxs2[v]

(***************************************************************************)
(* C16: contexts are never shared across users.  A turn of user u, with    *)
(* the ContextManager calls it makes, leaves the record of every other     *)
(* user, or its absence, unchanged; and the reply and the record a turn of *)
(* u leaves are those process_message yields from the record of u alone.   *)
(***************************************************************************)
C16_UsersAreIsolated ==
  [][/\ TurnStep =>
          LET u == turn'.user_id
          IN /\ \A v \in Users2 \ {u} : SameRecord(contexts, contexts', v)
             /\ \E kb \in TurnKB, claude \in TurnClaude :
                  LET out == process_message(Restrict(contexts, {u}), u, turn'.message, now,
                                             claude_enabled, turn'.is_authenticated, kb, claude)
                  IN /\ turn'.reply = out.reply
                     /\ SameRecord(out.contexts, contexts', u)]_vars

\* both users have a flow in progress, a different one each, started at different times
C16_TwoUsersInDifferentFlows ==
  /\ turn.user_id = <<"2">>
  /\ DOMAIN contexts = Users2
  /\ ActivePair(Stored(contexts, <<"1">>)) = <<Some("assignment"), Some(1)>>
  /\ ActivePair(Stored(contexts, <<"2">>)) = <<Some("course_info"), Some(1)>>
  /\ contexts[<<"1">>]["_last_updated"] < contexts[<<"2">>]["_last_updated"]
  /\ now = 800

(***************************************************************************)
(* Two turns of one user whose ContextManager calls interleave.  A turn    *)
(* reads the context once (process_message, line 405) and then makes its   *)
(* set_context and update_context calls one by one; which calls it makes   *)
(* depends on the message and on the context it read, not on the store.    *)
(***************************************************************************)
UpdateCall(key, value) == [op |-> "update_context", key |-> key, value |-> value, data |-> EmptyDict]

SetCall(context_data) == [op |-> "set_context", key |-> "", value |-> None, data |-> context_data]

FlowCalls(flow, step) == <<UpdateCall("active_flow", flow), UpdateCall("active_step", step)>>

\* the update_context calls of _handle_course_info_flow, in order
course_info_calls(message, context) ==
  LET active_step == Get(context, "active_step", None)
  IN IF active_step = None
     THEN IF Get(Get(context, "last_entities", EmptyDict), "course_code", <<>>) # <<>>
          THEN FlowCalls(None, None)
          ELSE FlowCalls(Some("course_info"), Some(1))
     ELSE IF active_step = Some(1) /\ Get(extract_entities(message), "course_code", <<>>) # <<>>
     THEN FlowCalls(None, None)
     ELSE <<>>

\* the update_context calls of _handle_assignment_flow, in order
assignment_calls(message, context) ==
  LET active_step == Get(context, "active_step", None)
  IN IF active_step = None
     THEN LET course_codes == Get(Get(context, "last_entities", EmptyDict), "course_code", <<>>)
          IN IF course_codes # <<>>
             THEN <<UpdateCall("current_course", IS \o course_codes[1])>>
                    \o FlowCalls(Some("assignment"), Some(2))
             ELSE FlowCalls(Some("assignment"), Some(1))
     ELSE IF active_step = Some(1)
     THEN LET course_codes == Get(extract_entities(message), "course_code", <<>>)
          IN IF course_codes # <<>>
             THEN <<UpdateCall("current_course", IS \o course_codes[1]),
                    UpdateCall("active_step", Some(2))>>
             ELSE <<>>
     ELSE IF active_step = Some(2)
     THEN FlowCalls(None, None)
     ELSE <<>>

\* the update_context calls of _handle_learning_material_flow, in order
learning_material_calls(message, context) ==
  LET active_step == Get(context, "active_step", None)
  IN IF active_step = None
     THEN IF Get(Get(context, "last_entities", EmptyDict), "course_code", <<>>) # <<>>
          THEN FlowCalls(None, None)
          ELSE FlowCalls(Some("learning_material"), Some(1))
     ELSE IF active_step = Some(1) /\ Get(extract_entities(message), "course_code", <<>>) # <<>>
     THEN FlowCalls(None, None)
     ELSE <<>>

flow_calls(name, message, context) ==
  CASE name = "course_info" -> course_info_calls(message, context)
    [] name = "assignment" -> assignment_calls(message, context)
    [] name = "learning_material" -> learning_material_calls(message, context)
    [] OTHER -> <<>>

\* the ContextManager writes of a turn of an authenticated user, after its read
process_message_calls(message, context, enabled) ==
  LET active_flow == Get(context, "active_flow", None)
      active_step == Get(context, "active_step", None)
  IN IF active_flow # None /\ active_step # None /\ active_flow[1] \in FlowNames
     THEN flow_calls(active_flow[1], message, context)
     ELSE IF MsgTable[message].complex /\ enabled
     THEN <<SetCall([last_intent |-> "complex_question", last_message |-> message])>>
     ELSE LET intent == MsgTable[message].intent
          IN <<SetCall([last_intent |-> intent.intent,
                        last_confidence |-> [num |-> intent.num, den |-> intent.den],
                        last_entities |-> MsgTable[message].entities])>>
               \o flow_calls(intent.intent, message, context)

ThreadIds == {1, 2}

ConcUser == <<"1">>

ConcMessages == {msg_tell_IS621, msg_task, msg_study, msg_compare}

\* process_message run to completion, for the store it leaves
TurnStore(ctxs, message, enabled) ==
  process_message(ctxs, ConcUser, message, 0, enabled, TRUE, KBFailure("timeout"),
                  [kind |-> "Timeout", text |-> ""]).contexts

\* the stores the two turns may find: none, or the one an earlier turn left
ConcStores == {EmptyDict} \cup {TurnStore(EmptyDict, m, FALSE) : m \in ConcMessages}

NewThread(message) == [pc |-> "read", message |-> message, context |-> EmptyDict, todo |-> <<>>]

InitConc ==
  /\ now = 0
  /\ claude_enabled \in BOOLEAN
  /\ turn = NoTurn
  /\ gate = NoGate
  /\ heap = <<>>
  /\ call = NoCall
  /\ bot = NoBot
  /\ \E start \in ConcStores, m1 \in ConcMessages, m2 \in ConcMessages :
       /\ contexts = start
       /\ threads = [start |-> start, t |-> <<NewThread(m1), NewThread(m2)>>]

\* context = self.context_manager.get_context(user_id) or {}
ReadContext(i) ==
  /\ threads.t[i].pc = "read"
  /\ LET got == get_context(contexts, ConcUser, now)
         context == IF got.value = None THEN EmptyDict ELSE got.value[1]
         todo == process_message_calls(threads.t[i].message, context, claude_enabled)
     IN /\ contexts' = got.contexts
        /\ threads' = [threads EXCEPT !.t[i] =
                         [pc |-> IF todo = <<>> THEN "done" ELSE "write",
                          message |-> @.message, context |-> context, todo |-> todo]]
  /\ UNCHANGED <<now, claude_enabled, turn, gate, heap, call, bot>>

\* the next set_context or update_context call of the turn
WriteContext(i) ==
  /\ threads.t[i].pc = "write"
  /\ LET c == Head(threads.t[i].todo)
         rest == Tail(threads.t[i].todo)
     IN /\ contexts' = IF c.op = "set_context"
                       THEN set_context(contexts, ConcUser, c.data, now)
                       ELSE update_context(contexts, ConcUser, c.key, c.value, now)
        /\ threads' = [threads EXCEPT !.t[i].todo = rest,
                                      !.t[i].pc = IF rest = <<>> THEN "done" ELSE "write"]
  /\ UNCHANGED <<now, claude_enabled, turn, gate, heap, call, bot>>

NextConc ==
  \/ \E i \in ThreadIds : ReadContext(i)
  \/ \E i \in ThreadIds : WriteContext(i)

SpecConc == InitConc /\ [][NextConc]_vars

\* the store after the two turns, one after the other, in the order given
Serial(first, second) ==
  TurnStore(TurnStore(threads.start, threads.t[first].message, claude_enabled),
            threads.t[second].message, claude_enabled)

BothDone == \A i \in ThreadIds : threads.t[i].pc = "done"

\* the keys the calls of a turn write
KeysWritten(i) ==
  LET calls == process_message_calls(threads.t[i].message, threads.t[i].context, claude_enabled)
  IN UNION {IF calls[j].op = "set_context" THEN DOMAIN calls[j].data ELSE {calls[j].key} :
            j \in 1..Len(calls)}

(***************************************************************************)
(* C17: when two turns of one user interleave their ContextManager calls,  *)
(* no update is lost: the record they leave is the one some serial order   *)
(* of the two turns leaves, every key either turn wrote is present, and    *)
(* the pair (active_flow, active_step) is a pair one flow sets.            *)
(***************************************************************************)
C17_InterleavedTurnsSerialize ==
  BothDone =>
    /\ contexts = Serial(1, 2) \/ contexts = Serial(2, 1)
    /\ \A i \in ThreadIds : KeysWritten(i) \subseteq DOMAIN Stored(contexts, ConcUser)
    /\ ActivePair(Stored(contexts, ConcUser)) \in ActivePairs \cup {NoFlow}

(***************************************************************************)
(* The two entry points that the bot framework calls for a text message:   *)
(* run_bot.process_message and main.handle_message.  fault names the stage *)
(* of the handler at which an exception is raised, if any; sent is what    *)
(* reply_text delivered to the user.                                       *)
(***************************************************************************)
TroubleProcessingReply == "I'm having trouble processing your message. Please try again."

UnexpectedErrorReply == "Sorry, I encountered an unexpected error. Please try again later."

\* what ErrorHandler.handle_error returns for the default error type
DefaultErrorResponse == "I'm sorry, something went wrong. Please try again later."

\* the dict ConversationHandler.process_message returns, as reply_text is given it
ConversationResponse == "{'intent': 'dummy_intent', 'message': 'This is a response'}"

RunBotFaults == {"none", "prepare", "handler", "context", "interaction", "send"}

MainFaults == {"none", "prepare", "handler", "send"}

BotOutcome(ctxs, sent) == [contexts |-> ctxs, sent |-> sent, propagated |-> FALSE]

\* run_bot.process_message after the handler has returned: the context read, the
\* interaction record and the reply
run_bot_send_response(out, user_id, t, fault) ==
  IF fault = "interaction"
  THEN BotOutcome(IF fault = "context" THEN out.contexts
                  ELSE get_context(out.contexts, user_id, t).contexts,
                  <<UnexpectedErrorReply>>)
  ELSE BotOutcome(IF fault = "context" THEN out.contexts
                  ELSE get_context(out.contexts, user_id, t).contexts,
                  IF fault = "send" THEN <<>>
                  ELSE IF fault = "handler" \/ out.reply = PyNone
                       THEN <<TroubleProcessingReply>>
                       ELSE <<out.reply[1]>>)

\* run_bot.process_message
run_bot_process_message(ctxs, user_id, message, t, enabled, is_authenticated, kb, claude, fault) ==
  IF fault = "prepare" THEN BotOutcome(ctxs, <<UnexpectedErrorReply>>)
  ELSE run_bot_send_response(IF fault = "handler" THEN Outcome(ctxs, PyNone, <<>>, <<>>)
                             ELSE process_message(ctxs, user_id, message, t, enabled,
                                                  is_authenticated, kb, claude),
                             user_id, t, fault)

\* main.handle_message: the except clause logs and builds a response it does not send
main_handle_message(ctxs, fault) ==
  IF fault = "none" THEN BotOutcome(ctxs, <<ConversationResponse>>)
  ELSE BotOutcome(ctxs, <<>>)

BotMessages == {msg_tell_IS621, msg_task, msg_python}

BotRecord(entry, fault, out) ==
  [entry |-> entry, fault |-> fault, sent |-> out.sent, propagated |-> out.propagated]

\* the knowledge base and the external model answer only in a turn that queries them
RunBotProcessMessage(user_id, message, fault) ==
  /\ \E is_authenticated \in AuthResults :
       \E queries \in {process_message(contexts, user_id, message, now, claude_enabled,
                                       is_authenticated, KBFailure("timeout"),
                                       [kind |-> "Timeout", text |-> ""]).kb_queries} :
         \E kb \in IF queries = <<>> THEN {KBFailure("timeout")} ELSE TurnKB,
            claude \in IF queries = <<>> THEN {[kind |-> "Timeout", text |-> ""]}
                       ELSE TurnClaude :
           \E out \in {run_bot_process_message(contexts, user_id, message, now,
                                               claude_enabled, is_authenticated, kb, claude,
                                               fault)} :
             /\ contexts' = out.contexts
             /\ bot' = BotRecord("run_bot.process_message", fault, out)
  /\ UNCHANGED <<now, claude_enabled, turn, gate, heap, call, threads>>

MainHandleMessage(user_id, message, fault) ==
  /\ LET out == main_handle_message(contexts, fault)
     IN /\ contexts' = out.contexts
        /\ bot' = BotRecord("main.handle_message", fault, out)
  /\ UNCHANGED <<now, claude_enabled, turn, gate, heap, call, threads>>

NextBot ==
  \/ \E user_id \in Users, message \in BotMessages, fault \in RunBotFaults :
       RunBotProcessMessage(user_id, message, fault)
  \/ \E user_id \in Users, message \in BotMessages, fault \in MainFaults :
       MainHandleMessage(user_id, message, fault)
  \/ Tick

SpecBot == Init /\ [][NextBot]_vars

(***************************************************************************)
(* C19: an exception raised while a message is handled is caught by the    *)
(* entry point, run_bot.process_message or main.handle_message alike: it   *)
(* does not propagate, the user is sent exactly one reply, and that reply  *)
(* is a generic apology unless the turn could still be answered.  (When    *)
(* reply_text itself raises, no reply can be delivered.)                   *)
(***************************************************************************)
C19_ExceptionsBecomeOneApology ==
  bot.entry # "none" =>
    /\ ~bot.propagated
    /\ bot.fault # "send" => Len(bot.sent) = 1
    /\ bot.fault \in {"prepare", "handler", "interaction"} =>
         bot.sent \in {<<TroubleProcessingReply>>, <<UnexpectedErrorReply>>,
                       <<DefaultErrorResponse>>}

(***************************************************************************)
(* The functions of the message text on their own: IntentClassifier,       *)
(* EntityExtractor and is_complex_question applied to one text.            *)
(***************************************************************************)
TextWords ==
  {<<"h","e","l","l","o">>,
   <<"H","e","y">>,
   <<"x","y","z","a","b","c">>,
   <<"t","h","a","n","k","s">>,
   <<"c","o","u","r","s","e">>,
   <<"I","S","6","2","1">>,
   <<"r","e","s","u","l","t">>,
   <<"b","y","e">>}

ClassifyTexts == TextWords \cup {w1 \o <<" ">> \o w2 : w1 \in TextWords, w2 \in TextWords}

\* texts with hits of several intents, and with repeated hits of one pattern
ScoreTexts ==
  {<<"C","a","n"," ","y","o","u"," ","h","e","l","p"," ","m","e"," ","w","i","t","h"," ","t","h","e"," ","I","S","6","2","1"," ","c","o","u","r","s","e"," ","a","s","s","i","g","n","m","e","n","t","?">>,  \* Can you help me with the IS621 course assignment?
   <<"g","o","o","d","b","y","e"," ","g","o","o","d","b","y","e"," ","g","o","o","d","b","y","e">>}  \* goodbye goodbye goodbye

\* texts with course codes in and outside the table, with and without a space
EntityTexts ==
  {<<"I"," ","n","e","e","d"," ","i","n","f","o"," ","a","b","o","u","t"," ","I","S","6","2","1">>,  \* I need info about IS621
   <<"I","S","6","9","9">>,  \* IS699
   <<"I","S","6","2","1"," ","a","n","d"," ","I","S","6","9","9"," ","a","n","d"," ","I","S","6","2","2">>,  \* IS621 and IS699 and IS622
   <<"I","S"," ","6","2","1">>,  \* IS 621
   <<"i","s","6","2","3">>,  \* is623
   <<"I","S","6","2">>,  \* IS62
   <<"i","s","6","2","1","5">>,  \* is6215
   <<"t","h","e","s","i","s"," ","1","2","3">>,  \* thesis 123
   <<"r","o","o","m"," ","4","2">>}  \* room 42

\* texts around each condition of is_complex_question
ComplexTexts ==
  {<<"a","?"," ","b","?"," ","c","?">>,  \* a? b? c?
   <<"o","n","e"," ","t","w","o"," ","t","h","r","e","e"," ","f","o","u","r"," ","f","i","v","e">>,  \* one two three four five
   <<"o","n","e"," ","t","w","o"," ","t","h","r","e","e"," ","f","o","u","r"," ","f","i","v","e","?">>,  \* one two three four five?
   <<"a"," ","b"," ","c"," ","d"," ","e"," ","f"," ","g"," ","h"," ","i"," ","j"," ","k">>,  \* a b c d e f g h i j k
   <<"a"," ","b"," ","c"," ","d"," ","e"," ","f"," ","g"," ","h"," ","i"," ","j">>,  \* a b c d e f g h i j
   <<"D","e","v","S","e","c","O","p","s">>,  \* DevSecOps
   <<"d","e","v","s","e","c","o","p","s">>,  \* devsecops
   <<"t","r","a","d","i","t","i","o","n","a","l">>,  \* traditional
   <<"T","r","a","d","i","t","i","o","n","a","l">>,  \* Traditional
   <<"D","a","t","a"," ","S","c","i","e","n","c","e">>,  \* Data Science
   <<"A","I"," ","a","n","d"," ","M","a","c","h","i","n","e"," ","L","e","a","r","n","i","n","g">>,  \* AI and Machine Learning
   <<"a","i"," ","a","n","d"," ","m","a","c","h","i","n","e"," ","l","e","a","r","n","i","n","g">>,  \* ai and machine learning
   <<"o","n","e","?"," ","t","w","o","?">>,  \* one? two?
   <<"m","y"," ","c","a","r","e","e","r">>,  \* my career
   <<"c","o","n","t","e","n","t">>,  \* content
   <<"W","h","y">>}  \* Why

TextInputs == ClassifyTexts \cup ScoreTexts \cup EntityTexts \cup ComplexTexts

InitText ==
  /\ contexts = EmptyDict
  /\ now = 0
  /\ claude_enabled = TRUE
  /\ turn = NoTurn
  /\ gate = NoGate
  /\ heap = <<>>
  /\ threads = EmptyDict
  /\ bot = NoBot
  /\ \E text \in TextInputs : call = [op |-> "input", text |-> text, result |-> None]

Classify ==
  /\ call.op = "input"
  /\ call' = [op |-> "classify", text |-> call.text, result |-> Some(classify(call.text))]
  /\ UNCHANGED <<contexts, now, claude_enabled, turn, gate, heap, threads, bot>>

GetAllScores ==
  /\ call.op = "input"
  /\ call' = [op |-> "get_all_scores", text |-> call.text,
              result |-> Some(get_all_scores(call.text))]
  /\ UNCHANGED <<contexts, now, claude_enabled, turn, gate, heap, threads, bot>>

ExtractEntities ==
  /\ call.op = "input"
  /\ call' = [op |-> "extract_entities", text |-> call.text,
              result |-> Some(extract_entities(call.text))]
  /\ UNCHANGED <<contexts, now, claude_enabled, turn, gate, heap, threads, bot>>

IsComplexQuestion ==
  /\ call.op = "input"
  /\ call' = [op |-> "is_complex_question", text |-> call.text,
              result |-> Some(is_complex_question(call.text))]
  /\ UNCHANGED <<contexts, now, claude_enabled, turn, gate, heap, threads, bot>>

NextText == Classify \/ GetAllScores \/ ExtractEntities \/ IsComplexQuestion

SpecText == InitText /\ [][NextText]_vars

\* some pattern of some intent matches somewhere in the text
SomePatternMatches(text) ==
  \E intent \in DOMAIN intent_patterns :
    \E p \in 1..Len(intent_patterns[intent]), i \in 1..Len(text) :
      ReMatchAt(intent_patterns[intent][p], lower(text), i)

(***************************************************************************)
(* C20: for a message in which no pattern of any intent matches, classify  *)
(* returns ("unknown", 0.0); for a message with at least one pattern hit   *)
(* it returns an intent other than "unknown" with a confidence above 0.    *)
(***************************************************************************)
C20_UnknownIffNoPatternHit ==
  call.op = "classify" =>
    LET r == call.result[1]
    IN IF SomePatternMatches(call.text)
       THEN r.intent # "unknown" /\ r.intent \in DOMAIN intent_patterns /\ r.num > 0 /\ r.den > 0
       ELSE r.intent = "unknown" /\ r.num = 0

\* the text of the unit test without any hit was classified
C20_NoHitIsUnknown ==
  /\ call.op = "classify"
  /\ call.text = <<"x","y","z","a","b","c">>
  /\ call.result[1].intent = "unknown"

\* the number of matches of an intent's patterns in the lowercased text, counted
\* by position (no pattern of the table can overlap itself)
PatternHits(intent, text) ==
  Cardinality({pi \in (1..Len(intent_patterns[intent])) \X (1..Len(text)) :
                 ReMatchAt(intent_patterns[intent][pi[1]], lower(text), pi[2])})

\* intent a scores less than intent b in the text: hits / number of patterns
NormalizedLess(a, b, text) ==
  PatternHits(a, text) * Len(intent_patterns[b]) < PatternHits(b, text) * Len(intent_patterns[a])

\* the k-th intent of the table holds the first maximum of the dict scores
IsFirstMaximum(k, scores) ==
  /\ \A j \in 1..Len(IntentOrder) : ~ScoreLess(scores[IntentOrder[k]], scores[IntentOrder[j]])
  /\ \A j \in 1..(k - 1) : ScoreLess(scores[IntentOrder[j]], scores[IntentOrder[k]])

(***************************************************************************)
(* C21: for a message with at least one hit, classify returns the intent   *)
(* whose normalized score (pattern matches divided by the number of        *)
(* patterns) is maximal, the first such intent in the table's order, with  *)
(* that score, and it is the first maximum of get_all_scores for the same  *)
(* message; get_all_scores has an entry for every intent, 0 for an intent  *)
(* without a hit.                                                          *)
(***************************************************************************)
C21_ClassifyIsFirstMaximum ==
  /\ (call.op = "classify" /\ SomePatternMatches(call.text)) =>
       LET r == call.result[1]
           scores == get_all_scores(call.text)
       IN \E k \in 1..Len(IntentOrder) :
            /\ r.intent = IntentOrder[k]
            /\ r.num * Len(intent_patterns[r.intent]) = PatternHits(r.intent, call.text) * r.den
            /\ \A j \in 1..Len(IntentOrder) : ~NormalizedLess(r.intent, IntentOrder[j], call.text)
            /\ \A j \in 1..(k - 1) : NormalizedLess(IntentOrder[j], r.intent, call.text)
            /\ DOMAIN scores = DOMAIN intent_patterns
            /\ IsFirstMaximum(k, scores)
            /\ ~ScoreLess(r, scores[r.intent]) /\ ~ScoreLess(scores[r.intent], r)
  /\ call.op = "get_all_scores" =>
       LET scores == call.result[1]
       IN /\ DOMAIN scores = DOMAIN intent_patterns
          /\ \A intent \in DOMAIN intent_patterns :
               /\ scores[intent].den > 0
               /\ scores[intent].num * Len(intent_patterns[intent])
                    = PatternHits(intent, call.text) * scores[intent].den
               /\ PatternHits(intent, call.text) = 0 => scores[intent].num = 0

\* "course result" scores 1/8 for course_info and for grades: the first one won
C21_TieGoesToFirstIntent ==
  /\ call.op = "classify"
  /\ call.text = <<"c","o","u","r","s","e"," ","r","e","s","u","l","t">>
  /\ call.result[1].intent = "course_info"
  /\ PatternHits("grades", call.text) = 1
  /\ PatternHits("course_info", call.text) = 1

(***************************************************************************)
(* C22: the confidence classify returns, which a turn stores as            *)
(* last_confidence, is at most 1 for every message, also when one pattern  *)
(* matches several times.                                                  *)
(***************************************************************************)
C22_ConfidenceAtMostOne ==
  call.op = "classify" => call.result[1].num <= call.result[1].den

(***************************************************************************)
(* The dialog of one user over messages of every route: a greeting of low  *)
(* confidence, farewells of confidence 0.2 and 1.2, a text without any     *)
(* hit, a complex question, and messages whose intent is a flow name.      *)
(***************************************************************************)
RouteMessages ==
  {msg_hello, msg_bye, msg_goodbyes, msg_python, msg_compare, msg_grade, msg_course}

NextRoute ==
  \/ \E user_id \in Users, message \in RouteMessages : ProcessMessage(user_id, message)
  \/ Tick

SpecRoute == Init /\ [][NextRoute]_vars

\* C22 on the stored record: last_confidence is within 0..1
C22_StoredConfidenceWithinUnit ==
  \A user_id \in DOMAIN contexts :
    "last_confidence" \in DOMAIN contexts[user_id] =>
      /\ contexts[user_id]["last_confidence"].num >= 0
      /\ contexts[user_id]["last_confidence"].num <= contexts[user_id]["last_confidence"].den

\* IS (any case), then whitespace only, then three digits starting at j
IsCodeAt(text, i, j) ==
  /\ i + 1 <= Len(text) /\ j + 2 <= Len(text) /\ j >= i + 2
  /\ lower_char(text[i]) = "i" /\ lower_char(text[i + 1]) = "s"
  /\ \A k \in (i + 2)..(j - 1) : text[k] \in SpaceChars
  /\ \A k \in j..(j + 2) : text[k] \in DigitChars

\* the occurrences of a course code in the text: where IS starts, where the digits start
CodeMatches(text) ==
  {m \in (1..Len(text)) \X (1..Len(text)) : IsCodeAt(text, m[1], m[2])}

\* a run of digits with no word character on either side
HasNumber(text) ==
  \E a \in 1..Len(text), b \in 1..Len(text) :
    /\ a <= b
    /\ \A k \in a..b : text[k] \in DigitChars
    /\ a = 1 \/ text[a - 1] \notin WordChars
    /\ b = Len(text) \/ text[b + 1] \notin WordChars

\* the names of the codes that the static table has, in the order of the codes
TableNames(codes) ==
  LET InTable(c) == (IS \o c) \in DOMAIN course_names
      found == SelectSeq(codes, InTable)
  IN [k \in 1..Len(found) |-> course_names[IS \o found[k]]]

(***************************************************************************)
(* C23: for a text with one or more IS### course codes, extract_entities   *)
(* lists the three digits of each code under course_code, in order of      *)
(* occurrence; course_name is a key iff some extracted code is in the      *)
(* static table, and then holds the names of exactly those codes, in       *)
(* order; an entity type without a match is not a key.                     *)
(***************************************************************************)
C23_CourseCodesAndNames ==
  call.op = "extract_entities" =>
    LET r == call.result[1]
        text == call.text
        found == CodeMatches(text)
    IN /\ DOMAIN r \subseteq {"course_code", "course_name", "number"}
       /\ ("number" \in DOMAIN r) <=> HasNumber(text)
       /\ ("course_code" \in DOMAIN r) <=> found # {}
       /\ "course_name" \in DOMAIN r => "course_code" \in DOMAIN r
       /\ found # {} =>
            /\ Len(r["course_code"]) = Cardinality(found)
            /\ \A m \in found :
                 r["course_code"][1 + Cardinality({n \in found : n[1] < m[1]})]
                   = SubSeq(text, m[2], m[2] + 2)
            /\ ("course_name" \in DOMAIN r) <=> TableNames(r["course_code"]) # <<>>
            /\ "course_name" \in DOMAIN r => r["course_name"] = TableNames(r["course_code"])

\* three codes, the second one not in the table: three codes and two names
C23_ThreeCodesTwoNames ==
  /\ call.op = "extract_entities"
  /\ call.text = <<"I","S","6","2","1"," ","a","n","d"," ","I","S","6","9","9"," ","a","n","d"," ","I","S","6","2","2">>
  /\ call.result[1]["course_code"] = << <<"6","2","1">>, <<"6","9","9">>, <<"6","2","2">> >>
  /\ call.result[1]["course_name"]
       = <<"Agile and DevSecOps", "Cloud Computing and Container Architecture">>

\* s occurs in text
Occurs(s, text) ==
  \E i \in 1..Len(text) : i + Len(s) - 1 <= Len(text) /\ SubSeq(text, i, i + Len(s) - 1) = s

\* the fixed trigger substrings: three are looked up in the message as written,
\* three in its lowercased text
HasTrigger(text) ==
  \/ \E s \in {<<"A","I"," ","a","n","d"," ","M","a","c","h","i","n","e"," ","L","e","a","r","n","i","n","g">>, <<"D","e","v","S","e","c","O","p","s">>, <<"t","r","a","d","i","t","i","o","n","a","l">>} : Occurs(s, text)
  \/ \E s \in {<<"d","a","t","a"," ","s","c","i","e","n","c","e">>, <<"c","a","r","e","e","r">>, <<"c","o","n","t","e","n","t">>} : Occurs(s, lower(text))

HasComplexPhrase(text) ==
  \E j \in 1..Len(complex_phrases) : Occurs(complex_phrases[j], lower(text))

\* the whitespace-separated words of the text, counted by where they end
Words(text) ==
  Cardinality({i \in 1..Len(text) :
                 /\ text[i] \notin SpaceChars
                 /\ (i = Len(text) \/ text[i + 1] \in SpaceChars)})

QuestionMarks(text) ==
  LET IsQuestionMark(c) == c = "?"
  IN Len(SelectSeq(text, IsQuestionMark))

(***************************************************************************)
(* C24: is_complex_question depends on the message text only and is true   *)
(* iff the message contains a fixed trigger substring, or has more than 10 *)
(* whitespace-separated words, or more than one '?', or its lowercased     *)
(* text contains a complexity phrase; so three '?' make a message complex  *)
(* and a 5-word message with at most one '?' and no trigger or phrase is   *)
(* not complex.                                                            *)
(***************************************************************************)
C24_ComplexIffSomeCondition ==
  call.op = "is_complex_question" =>
    LET r == call.result[1]
        text == call.text
    IN /\ r <=> \/ HasTrigger(text)
                \/ Words(text) > 10
                \/ QuestionMarks(text) > 1
                \/ HasComplexPhrase(text)
       /\ QuestionMarks(text) >= 3 => r
       /\ (/\ Words(text) = 5
           /\ QuestionMarks(text) <= 1
           /\ ~HasTrigger(text)
           /\ ~HasComplexPhrase(text)) => ~r

\* a message of three words with three '?' and no trigger or phrase was found complex
C24_ThreeQuestionMarks ==
  /\ call.op = "is_complex_question"
  /\ call.text = <<"a","?"," ","b","?"," ","c","?">>
  /\ QuestionMarks(call.text) = 3
  /\ ~HasTrigger(call.text) /\ ~HasComplexPhrase(call.text)
  /\ call.result[1] = TRUE

(***************************************************************************)
(* dialog.ConversationHandler: a conversation of one user, as the          *)
(* integration test holds it.  call keeps the exchanges so far.            *)
(***************************************************************************)
MaxConversation == 4

msg_Hello == <<"H","e","l","l","o">>  \* Hello
msg_assignments_due == <<"W","h","a","t"," ","a","s","s","i","g","n","m","e","n","t","s"," ","a","r","e"," ","d","u","e"," ","f","o","r"," ","I","S","6","2","1","?">>  \* What assignments are due for IS621?
msg_show_materials == <<"S","h","o","w"," ","m","e"," ","l","e","a","r","n","i","n","g"," ","m","a","t","e","r","i","a","l","s"," ","f","o","r"," ","I","S","6","2","1">>  \* Show me learning materials for IS621

ConversationMessages == {msg_Hello, msg_tell_IS621, msg_assignments_due, msg_show_materials}

\* conversation_handler.IntentClassifier.classify
conversation_classify(message_text) == <<"dummy_intent", "additional_info">>

\* ConversationHandler.process_message
conversation_process_message(user_id, message_text) ==
  LET intents == conversation_classify(message_text)
      intent == IF intents # <<>> THEN intents[1] ELSE "unknown"
  IN [intent |-> intent, message |-> "This is a response"]

InitConversation ==
  /\ contexts = EmptyDict
  /\ now = 0
  /\ claude_enabled = TRUE
  /\ turn = NoTurn
  /\ gate = NoGate
  /\ heap = <<>>
  /\ threads = EmptyDict
  /\ bot = NoBot
  /\ call = [op |-> "conversation", user_id |-> <<"1">>, exchanges |-> <<>>]

ConversationTurn(message_text) ==
  /\ Len(call.exchanges) < MaxConversation
  /\ call' = [call EXCEPT !.exchanges =
                Append(@, [text |-> message_text,
                           response |-> conversation_process_message(call.user_id, message_text)])]
  /\ UNCHANGED <<contexts, now, claude_enabled, turn, gate, heap, threads, bot>>

NextConversation == \E message_text \in ConversationMessages : ConversationTurn(message_text)

SpecConversation == InitConversation /\ [][NextConversation]_vars

\* the intent and the canned reply the conversation expects for a message
ExpectedIntent ==
  (msg_Hello :> "greeting") @@ (msg_tell_IS621 :> "course_info") @@
  (msg_assignments_due :> "assignment_inquiry") @@ (msg_show_materials :> "learning_materials")

ExpectedReply ==
  (msg_Hello :> "Hello! How can I assist you today?") @@
  (msg_tell_IS621 :> "IS621 is about Agile and DevSecOps.")

(***************************************************************************)
(* C25: over a conversation of several turns of one user, the mapping      *)
(* ConversationHandler.process_message returns has the intent of the       *)
(* message ("greeting" for "Hello", "course_info" for "Tell me about       *)
(* IS621", "assignment_inquiry", "learning_materials") and, as message,    *)
(* the matching canned reply.                                              *)
(***************************************************************************)
C25_ConversationIntentAndReply ==
  call.op = "conversation" =>
    \A k \in 1..Len(call.exchanges) :
      LET e == call.exchanges[k]
      IN /\ DOMAIN e.response = {"intent", "message"}
         /\ e.response.intent = ExpectedIntent[e.text]
         /\ e.text \in DOMAIN ExpectedReply => e.response.message = ExpectedReply[e.text]

\* the keys of the record that classification writes
ClassificationKeys == {"last_intent", "last_confidence", "last_entities", "last_message"}

\* both records have the same value, or both none, under every key of K
SameUnder(K, c1, c2) ==
  \A k \in K : /\ (k \in DOMAIN c1) <=> (k \in DOMAIN c2)
               /\ k \in DOMAIN c1 => c1[k] = c2[k]

(***************************************************************************)
(* C26: while the user has an active flow at a prompting step, a message   *)
(* of that user goes to that flow's handler whatever its intent or         *)
(* complexity: it is not classified (the record keeps last_intent,         *)
(* last_confidence, last_entities and last_message), it is sent neither to *)
(* the knowledge search nor to the external model, and at step 1 a message *)
(* without a course code gets the re-prompt and leaves active_flow and     *)
(* active_step as they were; this holds turn after turn.                   *)
(***************************************************************************)
C26_ActiveFlowTakesEveryMessage ==
  [][(/\ TurnStep
      /\ turn'.is_authenticated
      /\ HasActiveFlow(ContextRead(contexts, turn'.user_id, now)))
     => LET context == ContextRead(contexts, turn'.user_id, now)
            flow == ActivePair(context)[1][1]
            step == ActivePair(context)[2][1]
            after == Stored(contexts', turn'.user_id)
        IN /\ flow \in {"course_info", "assignment", "learning_material"}
           /\ turn'.kb_queries = <<>>
           /\ turn'.model_calls = <<>>
           /\ SameUnder(ClassificationKeys, context, after)
           /\ turn'.reply = CallFlow(flow, contexts, turn'.user_id, turn'.message, context, now,
                                     claude_enabled, KBFailure("timeout"),
                                     [kind |-> "Timeout", text |-> ""]).reply
           /\ (step = 1 /\ CodesOf(turn'.message) = <<>>) =>
                /\ turn'.reply = Text(NoCodeReply)
                /\ ActivePair(after) = ActivePair(context)
           /\ (step = 1 /\ CodesOf(turn'.message) # <<>>) =>
                /\ turn'.reply # Text(NoCodeReply)
                /\ ActivePair(after) # ActivePair(context)]_vars

\* with the model enabled, a message of unknown intent that arrived at step 1 of the
\* course_info flow got the re-prompt and left the flow waiting
C26_RepromptedAtStepOne ==
  /\ claude_enabled
  /\ turn.is_authenticated
  /\ turn.message = msg_python
  /\ turn.reply = Text(NoCodeReply)
  /\ turn.kb_queries = <<>>
  /\ ActivePair(Stored(contexts, turn.user_id)) = <<Some("course_info"), Some(1)>>
  /\ Stored(contexts, turn.user_id)["last_intent"] = "course_info"

\* the intents that start a flow with a first step that reads a course code
CodeFlows == {"course_info", "assignment", "learning_material"}

\* the prompt each of these flows gives when it finds no course code
FlowPrompt ==
  [course_info |-> CourseInfoPrompt, assignment |-> AssignmentPrompt,
   learning_material |-> MaterialPrompt]

(***************************************************************************)
(* C27: when a flow starts on a turn with no active flow, its first step   *)
(* reads the entities extracted from that turn's message: the course the   *)
(* flow answers about, or stores as current_course, is the first code of   *)
(* the triggering message, and with no code in that message the flow asks  *)
(* for one; a code of an earlier turn's message is never used instead.     *)
(***************************************************************************)
C27_FlowStartReadsThisMessage ==
  [][(/\ TurnStep
      /\ turn'.is_authenticated
      /\ ~HasActiveFlow(ContextRead(contexts, turn'.user_id, now))
      /\ ~(MsgTable[turn'.message].complex /\ claude_enabled)
      /\ MsgTable[turn'.message].intent.intent \in CodeFlows)
     => LET flow == MsgTable[turn'.message].intent.intent
            codes == CodesOf(turn'.message)
            after == Stored(contexts', turn'.user_id)
        IN IF codes = <<>>
           THEN /\ turn'.reply = Text(FlowPrompt[flow])
                /\ ActivePair(after) = <<Some(flow), Some(1)>>
           ELSE CASE flow = "course_info" ->
                       /\ turn'.reply = Text(_get_course_info(IS \o codes[1]))
                       /\ ActivePair(after) = NoFlow
                  [] flow = "assignment" ->
                       /\ turn'.reply = Text(AskKindReply(IS \o codes[1]))
                       /\ "current_course" \in DOMAIN after
                       /\ after["current_course"] = IS \o codes[1]
                       /\ ActivePair(after) = <<Some("assignment"), Some(2)>>
                  [] flow = "learning_material" ->
                       /\ turn'.reply = Text(MaterialReply(IS \o codes[1]))
                       /\ ActivePair(after) = NoFlow]_vars

\* the replies a flow gives on the turn that starts it
StartReplies(flow) ==
  CASE flow = "grades" -> {Text(GradesReply)}
    [] flow = "course_info" ->
         {Text(CourseInfoPrompt)} \cup {Text(_get_course_info(c)) : c \in KnownCourses}
    [] flow = "assignment" ->
         {Text(AssignmentPrompt)} \cup {Text(AskKindReply(c)) : c \in KnownCourses}
    [] flow = "learning_material" ->
         {Text(MaterialPrompt)} \cup {Text(MaterialReply(c)) : c \in KnownCourses}
    [] OTHER -> {}

(***************************************************************************)
(* C28: with no active flow, a message of an authenticated user reaches    *)
(* the knowledge gate (and through it the external model) iff the model is *)
(* enabled and either the message is complex or its intent is not a flow   *)
(* name and its confidence is below 0.2; a non-complex message whose       *)
(* intent is a flow name gets that flow's handler whatever its confidence; *)
(* with the model disabled no message reaches the knowledge search or the  *)
(* external model.                                                         *)
(***************************************************************************)
C28_RouteToKnowledgeGate ==
  [][TurnStep =>
       LET message == turn'.message
           complex == \/ HasTrigger(message) \/ Words(message) > 10
                      \/ QuestionMarks(message) > 1 \/ HasComplexPhrase(message)
           intent == MsgTable[message].intent
           is_flow == intent.intent \in FlowNames
           low == intent.num * 5 < intent.den
           reached == turn'.kb_queries # <<>>
       IN /\ turn'.model_calls # <<>> => reached
          /\ ~claude_enabled => ~reached
          /\ (turn'.is_authenticated /\ ~HasActiveFlow(ContextRead(contexts, turn'.user_id, now))) =>
               /\ reached <=> (claude_enabled /\ (complex \/ (~is_flow /\ low)))
               /\ (~complex /\ is_flow) =>
                    /\ turn'.reply \in StartReplies(intent.intent)
                    /\ Stored(contexts', turn'.user_id)["last_intent"] = intent.intent]_vars

\* with the model enabled, a greeting (confidence 1/7 < 0.2) reached the knowledge gate
C28_LowConfidenceGreetingAtGate ==
  /\ claude_enabled
  /\ turn.is_authenticated
  /\ turn.message = msg_hello
  /\ MsgTable[msg_hello].intent.intent = "greeting"
  /\ MsgTable[msg_hello].intent.num * 5 < MsgTable[msg_hello].intent.den
  /\ turn.kb_queries = <<[query |-> msg_hello]>>

(***************************************************************************)
(* C29: every turn processed for a user whose context record exists        *)
(* mutates the record and refreshes _last_updated, so that a user who      *)
(* keeps sending messages at intervals shorter than the expiry window      *)
(* never has the context, an active flow waiting at step 1 included,       *)
(* expire.                                                                 *)
(***************************************************************************)
C29_EveryTurnRefreshesRecord ==
  [][(/\ TurnStep
      /\ turn'.is_authenticated
      /\ turn'.user_id \in DOMAIN contexts)
     => /\ turn'.user_id \in DOMAIN contexts'
        /\ contexts'[turn'.user_id]["_last_updated"] = now]_vars

(***************************************************************************)
(* The dialog of one user around the assignment flow: messages that start  *)
(* it, with and without a course code, and answers to its second prompt    *)
(* with none, one and several of the words it looks for.                   *)
(***************************************************************************)
AssignmentMessages ==
  {msg_task, msg_ok, msg_IS699, msg_tell_IS621, msg_project, msg_exam_project,
   msg_assignment_exam, msg_exam}

NextAssignment ==
  \/ \E user_id \in Users, message \in AssignmentMessages : ProcessMessage(user_id, message)
  \/ Tick

SpecAssignment == Init /\ [][NextAssignment]_vars

\* the reply of step 2 for a message and the course of the record
StepTwoReply(message, context) ==
  LET course == IF "current_course" \in DOMAIN context
                THEN Str(context["current_course"]) ELSE "unknown"
  IN IF Occurs(<<"a","s","s","i","g","n","m","e","n","t">>, lower(message))
     THEN AssignmentsReply(course)
     ELSE IF Occurs(<<"p","r","o","j","e","c","t">>, lower(message))
     THEN ProjectReply(course)
     ELSE IF Occurs(<<"e","x","a","m">>, lower(message))
     THEN ExamReply(course)
     ELSE MenuReply(course)

(***************************************************************************)
(* C30: in the assignment flow, every message at step 2, matched or not,   *)
(* ends the turn with active_flow and active_step both none; its reply is  *)
(* chosen by the first of "assignment", "project", "exam" found in the     *)
(* lowercased message, else it is the menu of the three, and it names the  *)
(* course that the turn which moved the flow to step 2 stored as           *)
(* current_course; at step 1 a message with a course code moves the flow   *)
(* to step 2, still assignment, and one without a code leaves it at step 1.*)
(***************************************************************************)
C30_AssignmentFlowSteps ==
  [][(TurnStep /\ turn'.is_authenticated) =>
       LET context == ContextRead(contexts, turn'.user_id, now)
           after == Stored(contexts', turn'.user_id)
           codes == CodesOf(turn'.message)
       IN /\ ActivePair(context) = <<Some("assignment"), Some(2)>> =>
               /\ ActivePair(after) = NoFlow
               /\ "current_course" \in DOMAIN context
               /\ turn'.reply = Text(StepTwoReply(turn'.message, context))
          /\ (ActivePair(context) = <<Some("assignment"), Some(1)>> /\ codes # <<>>) =>
               /\ ActivePair(after) = <<Some("assignment"), Some(2)>>
               /\ after["current_course"] = IS \o codes[1]
          /\ (ActivePair(context) = <<Some("assignment"), Some(1)>> /\ codes = <<>>) =>
               /\ ActivePair(after) = <<Some("assignment"), Some(1)>>
               /\ turn'.reply = Text(NoCodeReply)
          /\ ActivePair(after) = <<Some("assignment"), Some(2)>> =>
               /\ "current_course" \in DOMAIN after
               /\ turn'.reply = Text(AskKindReply(after["current_course"]))]_vars

\* "EXAM and Project", sent at step 2 for IS699, got the project answer for IS699 and
\* ended the flow
C30_ProjectBeforeExam ==
  /\ turn.is_authenticated
  /\ turn.message = msg_exam_project
  /\ turn.reply = Text(ProjectReply("IS699"))
  /\ ActivePair(Stored(contexts, turn.user_id)) = NoFlow
  /\ Stored(contexts, turn.user_id)["current_course"] = IS \o <<"6","9","9">>

====
